-------------------------- MODULE VideoCaptureProofs --------------------------
(***************************************************************************)
(* Proofs about VideoCapture, for any number of sessions, images and       *)
(* displays.  Inv is inductive: the capture context is counted by where    *)
(* the encoder threads are (Counted), the capture thread has a display and *)
(* a round of draining exactly where it uses them (HasDisplay, Rounds),    *)
(* every session that waits for images is in one of the thread's lists     *)
(* (Enlisted), and the image it writes is nobody else's (Exclusive).       *)
(***************************************************************************)
EXTENDS VideoCapture, FiniteSetTheorems, TLAPS

(* A reference is held from ref() to the end of capture_async(); without   *)
(* one there is no capture thread, unless somebody waits for its end.      *)
Holding == {"queue", "check", "release"} \cup InCapture
Counted ==
  /\ refs = {s \in Sessions : pc[s] \in Holding}
  /\ ~NobodyJoins => refs = {}
  /\ refs = {} /\ NobodyJoins => cap = "none"

(* The encoder threads and the capture thread have a display where they    *)
(* use one.                                                                *)
HasDisplay ==
  /\ \A s \in Sessions :
       pc[s] \in {"device", "enc", "pop", "encode", "leave"} => display[s] # None
  /\ cap \in {"capture", "shot", "publish"} => disp # None

(* Only while it drains does the capture thread have contexts to drain.    *)
Rounds ==
  /\ cap \notin {"drain", "pop"} => todo = {} /\ peeked = None
  /\ cap = "pop" => peeked # None

(* A session that comes to an open queue is in one of the lists until its  *)
(* images are stopped; when the capture thread has ended they all are.     *)
Enlisted ==
  /\ \A s \in Sessions : pc[s] \in {"new", "queue"} => s \notin ctxs \cup queue
  /\ \A s \in Sessions :
       /\ running[s]
       /\ (pc[s] = "check" /\ open) \/ pc[s] \in InCapture
       => s \in ctxs \cup queue
  /\ cap \in {"wait", "ended"} => ctxs = {}
  /\ cap = "ended" => ~open /\ queue = {}

(* The image that is written is of the pool and in nobody's hands.         *)
Exclusive ==
  /\ shot # None <=> cap = "shot"
  /\ \A s \in Sessions : pc[s] = "out" => ~running[s]
  /\ ImageExclusive

Inv ==
  /\ TypeOK /\ IsFiniteSet(pool)
  /\ Counted /\ HasDisplay /\ Rounds /\ Enlisted /\ Exclusive

(* The invariant holds at first,                                           *)
LEMMA InvInit == Init => Inv
<1> SUFFICES ASSUME Init PROVE Inv
  OBVIOUS
<1>1. TypeOK /\ IsFiniteSet(pool)
  <2>1. IsFiniteSet(pool) /\ Cardinality(pool) = 0
    BY FS_EmptySet DEF Init
  <2>2. 0 <= PoolSize /\ 0 \in 0..MaxDisplays
    BY CaptureAssumption
  <2>3. pool \subseteq Images /\ Cardinality(pool) <= PoolSize
    BY <2>1, <2>2 DEF Init
  <2>4. \A s \in Sessions : pc[s] \notin {"enc", "pop", "encode"}
    BY DEF Init
  <2> QED BY <2>1, <2>2, <2>3, <2>4 DEF Init, TypeOK, EncoderPoints, CapturePoints
<1>2. Counted /\ HasDisplay
  BY DEF Init, Counted, HasDisplay, Holding, InCapture
<1>3. Rounds /\ Enlisted /\ Exclusive
  BY DEF Init, Rounds, Enlisted, Exclusive, ImageExclusive, InCapture
<1> QED BY <1>1, <1>2, <1>3 DEF Inv

(* Taking one more image from the free memory keeps the pool in its size.  *)
LEMMA PoolStep ==
  ASSUME TypeOK, IsFiniteSet(pool), NEW i \in Images, Pullable(i)
  PROVE  \A trimmed \in SUBSET pool :
           LET next == (pool \cup {i}) \ trimmed
           IN IsFiniteSet(next) /\ next \subseteq Images /\ Cardinality(next) <= PoolSize
<1> USE CaptureAssumption
<1>1. IsFiniteSet(pool \cup {i}) /\ Cardinality(pool \cup {i}) <= PoolSize
  <2>1. Cardinality(pool) \in Nat /\ Cardinality(pool) <= PoolSize
    BY FS_CardinalityType DEF TypeOK
  <2>2. CASE i \in pool
    <3>1. pool \cup {i} = pool
      BY <2>2
    <3> QED BY <2>1, <3>1
  <2>3. CASE i \notin pool
    <3>1. Cardinality(pool) < PoolSize
      BY <2>3 DEF Pullable
    <3>2. IsFiniteSet(pool \cup {i}) /\ Cardinality(pool \cup {i}) = Cardinality(pool) + 1
      BY <2>3, FS_AddElement
    <3> QED BY <2>1, <3>1, <3>2
  <2> QED BY <2>2, <2>3
<1> SUFFICES ASSUME NEW trimmed \in SUBSET pool
             PROVE  LET next == (pool \cup {i}) \ trimmed
                    IN /\ IsFiniteSet(next) /\ next \subseteq Images
                       /\ Cardinality(next) <= PoolSize
  OBVIOUS
<1> DEFINE next == (pool \cup {i}) \ trimmed
<1>2. next \subseteq pool \cup {i} /\ next \subseteq Images
  BY DEF TypeOK
<1>3. IsFiniteSet(next) /\ Cardinality(next) <= Cardinality(pool \cup {i})
  BY <1>1, <1>2, FS_Subset
<1>4. Cardinality(next) \in Nat /\ Cardinality(pool \cup {i}) \in Nat
  BY <1>1, <1>3, FS_CardinalityType
<1> QED BY <1>1, <1>2, <1>3, <1>4

(* Types, and the size of the pool.                                        *)
LEMMA TypeStep == ASSUME Inv, [Next]_vars PROVE (TypeOK /\ IsFiniteSet(pool))'
<1> USE CaptureAssumption
    DEF Inv, TypeOK, HasDisplay, Rounds, Displays, EncoderPoints, CapturePoints,
        encoder, events, context, capture, Goes, CapGoes
<1>1. ASSUME NEW s \in Sessions, Ref(s) PROVE (TypeOK /\ IsFiniteSet(pool))'
  BY <1>1 DEF Ref
<1>2. ASSUME NEW s \in Sessions, Queue(s) PROVE (TypeOK /\ IsFiniteSet(pool))'
  BY <1>2 DEF Queue, Enlisted
<1>3. ASSUME NEW s \in Sessions, Check(s) PROVE (TypeOK /\ IsFiniteSet(pool))'
  BY <1>3 DEF Check
<1>4. ASSUME NEW s \in Sessions, Top(s) PROVE (TypeOK /\ IsFiniteSet(pool))'
  BY <1>4 DEF Top
<1>5. ASSUME NEW s \in Sessions, LockDisplay(s) PROVE (TypeOK /\ IsFiniteSet(pool))'
  BY <1>5 DEF LockDisplay, Alive
<1>6. ASSUME NEW s \in Sessions, MakeEncoder(s) PROVE (TypeOK /\ IsFiniteSet(pool))'
  BY <1>6 DEF MakeEncoder
<1>7. ASSUME NEW s \in Sessions, EncodeLoop(s) PROVE (TypeOK /\ IsFiniteSet(pool))'
  BY <1>7 DEF EncodeLoop
<1>8. ASSUME NEW s \in Sessions, PopImage(s) PROVE (TypeOK /\ IsFiniteSet(pool))'
  BY <1>8 DEF PopImage
<1>9. ASSUME NEW s \in Sessions, PopNone(s) PROVE (TypeOK /\ IsFiniteSet(pool))'
  BY <1>9 DEF PopNone
<1>10. ASSUME NEW s \in Sessions, Encode(s) PROVE (TypeOK /\ IsFiniteSet(pool))'
  BY <1>10 DEF Encode
<1>11. ASSUME NEW s \in Sessions, LeaveRun(s) PROVE (TypeOK /\ IsFiniteSet(pool))'
  BY <1>11 DEF LeaveRun
<1>12. ASSUME NEW s \in Sessions, Release(s) PROVE (TypeOK /\ IsFiniteSet(pool))'
  <2>1. pc' \in [Sessions -> EncoderPoints]
    BY <1>12 DEF Release
  <2>2. refs' \subseteq Sessions /\ open' \in BOOLEAN
    BY <1>12 DEF Release
  <2>3. \A r \in Sessions : pc'[r] \in {"enc", "pop", "encode"} => pc'[r] = pc[r]
    BY <1>12 DEF Release
  <2> QED BY <1>12, <2>1, <2>2, <2>3 DEF Release
<1>13. ASSUME NEW s \in Sessions, Join(s) PROVE (TypeOK /\ IsFiniteSet(pool))'
  BY <1>13 DEF Join
<1>14. ASSUME NEW s \in Sessions, StopImages(s) PROVE (TypeOK /\ IsFiniteSet(pool))'
  BY <1>14 DEF StopImages
<1>15. ASSUME NEW s \in Sessions, Shutdown(s) PROVE (TypeOK /\ IsFiniteSet(pool))'
  BY <1>15 DEF Shutdown
<1>16. ASSUME NEW d \in Displays, Torn(d) PROVE (TypeOK /\ IsFiniteSet(pool))'
  BY <1>16 DEF Torn
<1>17. CASE WaitFirst
  BY <1>17 DEF WaitFirst
<1>18. CASE OpenFirst
  BY <1>18 DEF OpenFirst, OpenDisplay
<1>19. CASE PullImage
  <2>1. PICK i \in Images, trimmed \in SUBSET pool :
          Pullable(i) /\ pool' = (pool \cup {i}) \ trimmed /\ shot' = i
    BY <1>19 DEF PullImage
  <2>2. IsFiniteSet(pool') /\ pool' \subseteq Images /\ Cardinality(pool') <= PoolSize
    BY <2>1, PoolStep
  <2> QED BY <1>19, <2>1, <2>2 DEF PullImage
<1>20. CASE Interrupted
  BY <1>20 DEF Interrupted
<1>21. CASE PushImage
  BY <1>21 DEF PushImage, Push, Listening
<1>22. CASE PushTimeout
  BY <1>22 DEF PushTimeout, Push, Listening
<1>23. CASE Reinit
  BY <1>23, FS_EmptySet DEF Reinit
<1>24. CASE Count
  BY <1>24 DEF Count, Listening
<1>25. CASE DrainPeek
  BY <1>25 DEF DrainPeek, ToDrain
<1>26. CASE DrainPop
  BY <1>26 DEF DrainPop
<1>27. CASE Drop
  BY <1>27 DEF Drop
<1>28. CASE MakeDisplay
  BY <1>28 DEF MakeDisplay, OpenDisplay
<1>29. CASE Publish
  BY <1>29 DEF Publish
<1>30. CASE Close
  BY <1>30, FS_EmptySet DEF Close
<1>31. CASE Guard
  BY <1>31 DEF Guard
<1>32. CASE BackendEnds
  BY <1>32 DEF BackendEnds
<1>33. CASE UNCHANGED vars
  BY <1>33 DEF vars
<1> QED BY <1>1, <1>2, <1>3, <1>4, <1>5, <1>6, <1>7, <1>8, <1>9, <1>10, <1>11, <1>12,
           <1>13, <1>14, <1>15, <1>16, <1>17, <1>18, <1>19, <1>20, <1>21, <1>22, <1>23,
           <1>24, <1>25, <1>26, <1>27, <1>28, <1>29, <1>30, <1>31, <1>32, <1>33
    DEF Next, EncoderStep, CaptureStep, Teardowns

(* Who holds a reference of the capture context.                           *)
LEMMA CountedStep == ASSUME Inv, [Next]_vars PROVE Counted'
<1> USE CaptureAssumption
    DEF Inv, TypeOK, Counted, Holding, InCapture, NobodyJoins, EncoderPoints,
        encoder, events, context, capture, Goes, CapGoes
<1>1. ASSUME NEW s \in Sessions, Ref(s) PROVE Counted'
  BY <1>1 DEF Ref
<1>2. ASSUME NEW s \in Sessions, Queue(s) PROVE Counted'
  BY <1>2 DEF Queue
<1>3. ASSUME NEW s \in Sessions, Check(s) PROVE Counted'
  BY <1>3 DEF Check
<1>4. ASSUME NEW s \in Sessions, Top(s) PROVE Counted'
  BY <1>4 DEF Top
<1>5. ASSUME NEW s \in Sessions, LockDisplay(s) PROVE Counted'
  BY <1>5 DEF LockDisplay, Alive
<1>6. ASSUME NEW s \in Sessions, MakeEncoder(s) PROVE Counted'
  BY <1>6 DEF MakeEncoder
<1>7. ASSUME NEW s \in Sessions, EncodeLoop(s) PROVE Counted'
  BY <1>7 DEF EncodeLoop
<1>8. ASSUME NEW s \in Sessions, PopImage(s) PROVE Counted'
  BY <1>8 DEF PopImage
<1>9. ASSUME NEW s \in Sessions, PopNone(s) PROVE Counted'
  BY <1>9 DEF PopNone
<1>10. ASSUME NEW s \in Sessions, Encode(s) PROVE Counted'
  BY <1>10 DEF Encode
<1>11. ASSUME NEW s \in Sessions, LeaveRun(s) PROVE Counted'
  BY <1>11 DEF LeaveRun
<1>12. ASSUME NEW s \in Sessions, Release(s) PROVE Counted'
  BY <1>12 DEF Release
<1>13. ASSUME NEW s \in Sessions, Join(s) PROVE Counted'
  BY <1>13 DEF Join
<1>14. ASSUME NEW s \in Sessions, StopImages(s) PROVE Counted'
  BY <1>14 DEF StopImages
<1>15. ASSUME NEW s \in Sessions, Shutdown(s) PROVE Counted'
  BY <1>15 DEF Shutdown
<1>16. ASSUME NEW d \in Displays, Torn(d) PROVE Counted'
  BY <1>16 DEF Torn
<1>17. CASE WaitFirst
  BY <1>17 DEF WaitFirst
<1>18. CASE OpenFirst
  BY <1>18 DEF OpenFirst, OpenDisplay
<1>19. CASE PullImage
  BY <1>19 DEF PullImage, Pullable
<1>20. CASE Interrupted
  BY <1>20 DEF Interrupted
<1>21. CASE PushImage
  BY <1>21 DEF PushImage, Push, Listening
<1>22. CASE PushTimeout
  BY <1>22 DEF PushTimeout, Push, Listening
<1>23. CASE Reinit
  BY <1>23 DEF Reinit
<1>24. CASE Count
  BY <1>24 DEF Count, Listening
<1>25. CASE DrainPeek
  BY <1>25 DEF DrainPeek, ToDrain
<1>26. CASE DrainPop
  BY <1>26 DEF DrainPop
<1>27. CASE Drop
  BY <1>27 DEF Drop
<1>28. CASE MakeDisplay
  BY <1>28 DEF MakeDisplay, OpenDisplay
<1>29. CASE Publish
  BY <1>29 DEF Publish
<1>30. CASE Close
  BY <1>30 DEF Close
<1>31. CASE Guard
  BY <1>31 DEF Guard
<1>32. CASE BackendEnds
  BY <1>32 DEF BackendEnds
<1>33. CASE UNCHANGED vars
  BY <1>33 DEF vars
<1> QED BY <1>1, <1>2, <1>3, <1>4, <1>5, <1>6, <1>7, <1>8, <1>9, <1>10, <1>11, <1>12,
           <1>13, <1>14, <1>15, <1>16, <1>17, <1>18, <1>19, <1>20, <1>21, <1>22, <1>23,
           <1>24, <1>25, <1>26, <1>27, <1>28, <1>29, <1>30, <1>31, <1>32, <1>33
    DEF Next, EncoderStep, CaptureStep, Teardowns

(* Displays are there where they are used.                                 *)
LEMMA HasDisplayStep == ASSUME Inv, [Next]_vars PROVE HasDisplay'
<1> USE CaptureAssumption
    DEF Inv, TypeOK, HasDisplay, Displays,
        encoder, events, context, capture, Goes, CapGoes
<1>1. ASSUME NEW s \in Sessions, Ref(s) PROVE HasDisplay'
  BY <1>1 DEF Ref
<1>2. ASSUME NEW s \in Sessions, Queue(s) PROVE HasDisplay'
  BY <1>2 DEF Queue
<1>3. ASSUME NEW s \in Sessions, Check(s) PROVE HasDisplay'
  BY <1>3 DEF Check
<1>4. ASSUME NEW s \in Sessions, Top(s) PROVE HasDisplay'
  BY <1>4 DEF Top
<1>5. ASSUME NEW s \in Sessions, LockDisplay(s) PROVE HasDisplay'
  BY <1>5 DEF LockDisplay, Alive
<1>6. ASSUME NEW s \in Sessions, MakeEncoder(s) PROVE HasDisplay'
  BY <1>6 DEF MakeEncoder
<1>7. ASSUME NEW s \in Sessions, EncodeLoop(s) PROVE HasDisplay'
  BY <1>7 DEF EncodeLoop
<1>8. ASSUME NEW s \in Sessions, PopImage(s) PROVE HasDisplay'
  BY <1>8 DEF PopImage
<1>9. ASSUME NEW s \in Sessions, PopNone(s) PROVE HasDisplay'
  BY <1>9 DEF PopNone
<1>10. ASSUME NEW s \in Sessions, Encode(s) PROVE HasDisplay'
  BY <1>10 DEF Encode
<1>11. ASSUME NEW s \in Sessions, LeaveRun(s) PROVE HasDisplay'
  BY <1>11 DEF LeaveRun
<1>12. ASSUME NEW s \in Sessions, Release(s) PROVE HasDisplay'
  BY <1>12 DEF Release
<1>13. ASSUME NEW s \in Sessions, Join(s) PROVE HasDisplay'
  BY <1>13 DEF Join
<1>14. ASSUME NEW s \in Sessions, StopImages(s) PROVE HasDisplay'
  BY <1>14 DEF StopImages
<1>15. ASSUME NEW s \in Sessions, Shutdown(s) PROVE HasDisplay'
  BY <1>15 DEF Shutdown
<1>16. ASSUME NEW d \in Displays, Torn(d) PROVE HasDisplay'
  BY <1>16 DEF Torn
<1>17. CASE WaitFirst
  BY <1>17 DEF WaitFirst
<1>18. CASE OpenFirst
  BY <1>18 DEF OpenFirst, OpenDisplay
<1>19. CASE PullImage
  BY <1>19 DEF PullImage, Pullable
<1>20. CASE Interrupted
  BY <1>20 DEF Interrupted
<1>21. CASE PushImage
  BY <1>21 DEF PushImage, Push, Listening
<1>22. CASE PushTimeout
  BY <1>22 DEF PushTimeout, Push, Listening
<1>23. CASE Reinit
  BY <1>23 DEF Reinit
<1>24. CASE Count
  BY <1>24 DEF Count, Listening
<1>25. CASE DrainPeek
  BY <1>25 DEF DrainPeek, ToDrain
<1>26. CASE DrainPop
  BY <1>26 DEF DrainPop
<1>27. CASE Drop
  BY <1>27 DEF Drop
<1>28. CASE MakeDisplay
  BY <1>28 DEF MakeDisplay, OpenDisplay
<1>29. CASE Publish
  BY <1>29 DEF Publish
<1>30. CASE Close
  BY <1>30 DEF Close
<1>31. CASE Guard
  BY <1>31 DEF Guard
<1>32. CASE BackendEnds
  BY <1>32 DEF BackendEnds
<1>33. CASE UNCHANGED vars
  BY <1>33 DEF vars
<1> QED BY <1>1, <1>2, <1>3, <1>4, <1>5, <1>6, <1>7, <1>8, <1>9, <1>10, <1>11, <1>12,
           <1>13, <1>14, <1>15, <1>16, <1>17, <1>18, <1>19, <1>20, <1>21, <1>22, <1>23,
           <1>24, <1>25, <1>26, <1>27, <1>28, <1>29, <1>30, <1>31, <1>32, <1>33
    DEF Next, EncoderStep, CaptureStep, Teardowns

(* A round of draining ends with nothing left over.                        *)
LEMMA RoundsStep == ASSUME Inv, [Next]_vars PROVE Rounds'
<1> USE CaptureAssumption
    DEF Inv, TypeOK, Rounds,
        encoder, events, context, capture, Goes, CapGoes
<1>1. ASSUME NEW s \in Sessions, Ref(s) PROVE Rounds'
  BY <1>1 DEF Ref
<1>2. ASSUME NEW s \in Sessions, Queue(s) PROVE Rounds'
  BY <1>2 DEF Queue
<1>3. ASSUME NEW s \in Sessions, Check(s) PROVE Rounds'
  BY <1>3 DEF Check
<1>4. ASSUME NEW s \in Sessions, Top(s) PROVE Rounds'
  BY <1>4 DEF Top
<1>5. ASSUME NEW s \in Sessions, LockDisplay(s) PROVE Rounds'
  BY <1>5 DEF LockDisplay, Alive
<1>6. ASSUME NEW s \in Sessions, MakeEncoder(s) PROVE Rounds'
  BY <1>6 DEF MakeEncoder
<1>7. ASSUME NEW s \in Sessions, EncodeLoop(s) PROVE Rounds'
  BY <1>7 DEF EncodeLoop
<1>8. ASSUME NEW s \in Sessions, PopImage(s) PROVE Rounds'
  BY <1>8 DEF PopImage
<1>9. ASSUME NEW s \in Sessions, PopNone(s) PROVE Rounds'
  BY <1>9 DEF PopNone
<1>10. ASSUME NEW s \in Sessions, Encode(s) PROVE Rounds'
  BY <1>10 DEF Encode
<1>11. ASSUME NEW s \in Sessions, LeaveRun(s) PROVE Rounds'
  BY <1>11 DEF LeaveRun
<1>12. ASSUME NEW s \in Sessions, Release(s) PROVE Rounds'
  BY <1>12 DEF Release
<1>13. ASSUME NEW s \in Sessions, Join(s) PROVE Rounds'
  BY <1>13 DEF Join
<1>14. ASSUME NEW s \in Sessions, StopImages(s) PROVE Rounds'
  BY <1>14 DEF StopImages
<1>15. ASSUME NEW s \in Sessions, Shutdown(s) PROVE Rounds'
  BY <1>15 DEF Shutdown
<1>16. ASSUME NEW d \in Displays, Torn(d) PROVE Rounds'
  BY <1>16 DEF Torn
<1>17. CASE WaitFirst
  BY <1>17 DEF WaitFirst
<1>18. CASE OpenFirst
  BY <1>18 DEF OpenFirst, OpenDisplay
<1>19. CASE PullImage
  BY <1>19 DEF PullImage, Pullable
<1>20. CASE Interrupted
  BY <1>20 DEF Interrupted
<1>21. CASE PushImage
  BY <1>21 DEF PushImage, Push, Listening
<1>22. CASE PushTimeout
  BY <1>22 DEF PushTimeout, Push, Listening
<1>23. CASE Reinit
  BY <1>23 DEF Reinit
<1>24. CASE Count
  BY <1>24 DEF Count, Listening
<1>25. CASE DrainPeek
  BY <1>25 DEF DrainPeek, ToDrain
<1>26. CASE DrainPop
  BY <1>26 DEF DrainPop
<1>27. CASE Drop
  BY <1>27 DEF Drop
<1>28. CASE MakeDisplay
  BY <1>28 DEF MakeDisplay, OpenDisplay
<1>29. CASE Publish
  BY <1>29 DEF Publish
<1>30. CASE Close
  BY <1>30 DEF Close
<1>31. CASE Guard
  BY <1>31 DEF Guard
<1>32. CASE BackendEnds
  BY <1>32 DEF BackendEnds
<1>33. CASE UNCHANGED vars
  BY <1>33 DEF vars
<1> QED BY <1>1, <1>2, <1>3, <1>4, <1>5, <1>6, <1>7, <1>8, <1>9, <1>10, <1>11, <1>12,
           <1>13, <1>14, <1>15, <1>16, <1>17, <1>18, <1>19, <1>20, <1>21, <1>22, <1>23,
           <1>24, <1>25, <1>26, <1>27, <1>28, <1>29, <1>30, <1>31, <1>32, <1>33
    DEF Next, EncoderStep, CaptureStep, Teardowns

(* Whoever waits for images is in the lists of the capture thread.         *)
LEMMA EnlistedStep == ASSUME Inv, [Next]_vars PROVE Enlisted'
<1> USE CaptureAssumption
    DEF Inv, TypeOK, Enlisted, Counted, NobodyJoins, Holding, InCapture,
        encoder, events, context, capture, Goes, CapGoes
<1>1. ASSUME NEW s \in Sessions, Ref(s) PROVE Enlisted'
  BY <1>1 DEF Ref
<1>2. ASSUME NEW s \in Sessions, Queue(s) PROVE Enlisted'
  BY <1>2 DEF Queue
<1>3. ASSUME NEW s \in Sessions, Check(s) PROVE Enlisted'
  BY <1>3 DEF Check
<1>4. ASSUME NEW s \in Sessions, Top(s) PROVE Enlisted'
  BY <1>4 DEF Top
<1>5. ASSUME NEW s \in Sessions, LockDisplay(s) PROVE Enlisted'
  BY <1>5 DEF LockDisplay, Alive
<1>6. ASSUME NEW s \in Sessions, MakeEncoder(s) PROVE Enlisted'
  BY <1>6 DEF MakeEncoder
<1>7. ASSUME NEW s \in Sessions, EncodeLoop(s) PROVE Enlisted'
  BY <1>7 DEF EncodeLoop
<1>8. ASSUME NEW s \in Sessions, PopImage(s) PROVE Enlisted'
  BY <1>8 DEF PopImage
<1>9. ASSUME NEW s \in Sessions, PopNone(s) PROVE Enlisted'
  BY <1>9 DEF PopNone
<1>10. ASSUME NEW s \in Sessions, Encode(s) PROVE Enlisted'
  BY <1>10 DEF Encode
<1>11. ASSUME NEW s \in Sessions, LeaveRun(s) PROVE Enlisted'
  BY <1>11 DEF LeaveRun
<1>12. ASSUME NEW s \in Sessions, Release(s) PROVE Enlisted'
  BY <1>12 DEF Release
<1>13. ASSUME NEW s \in Sessions, Join(s) PROVE Enlisted'
  BY <1>13 DEF Join
<1>14. ASSUME NEW s \in Sessions, StopImages(s) PROVE Enlisted'
  BY <1>14 DEF StopImages
<1>15. ASSUME NEW s \in Sessions, Shutdown(s) PROVE Enlisted'
  BY <1>15 DEF Shutdown
<1>16. ASSUME NEW d \in Displays, Torn(d) PROVE Enlisted'
  BY <1>16 DEF Torn
<1>17. CASE WaitFirst
  BY <1>17 DEF WaitFirst
<1>18. CASE OpenFirst
  BY <1>18 DEF OpenFirst, OpenDisplay
<1>19. CASE PullImage
  BY <1>19 DEF PullImage, Pullable
<1>20. CASE Interrupted
  BY <1>20 DEF Interrupted
<1>21. CASE PushImage
  BY <1>21 DEF PushImage, Push, Listening
<1>22. CASE PushTimeout
  BY <1>22 DEF PushTimeout, Push, Listening
<1>23. CASE Reinit
  BY <1>23 DEF Reinit
<1>24. CASE Count
  BY <1>24 DEF Count, Listening
<1>25. CASE DrainPeek
  BY <1>25 DEF DrainPeek, ToDrain
<1>26. CASE DrainPop
  BY <1>26 DEF DrainPop
<1>27. CASE Drop
  BY <1>27 DEF Drop
<1>28. CASE MakeDisplay
  BY <1>28 DEF MakeDisplay, OpenDisplay
<1>29. CASE Publish
  BY <1>29 DEF Publish
<1>30. CASE Close
  BY <1>30 DEF Close
<1>31. CASE Guard
  BY <1>31 DEF Guard
<1>32. CASE BackendEnds
  BY <1>32 DEF BackendEnds
<1>33. CASE UNCHANGED vars
  BY <1>33 DEF vars
<1> QED BY <1>1, <1>2, <1>3, <1>4, <1>5, <1>6, <1>7, <1>8, <1>9, <1>10, <1>11, <1>12,
           <1>13, <1>14, <1>15, <1>16, <1>17, <1>18, <1>19, <1>20, <1>21, <1>22, <1>23,
           <1>24, <1>25, <1>26, <1>27, <1>28, <1>29, <1>30, <1>31, <1>32, <1>33
    DEF Next, EncoderStep, CaptureStep, Teardowns

(* The image that is written stays with the capture thread.                *)
LEMMA ExclusiveStep == ASSUME Inv, [Next]_vars PROVE Exclusive'
<1> USE CaptureAssumption
    DEF Inv, TypeOK, Exclusive, ImageExclusive, InUse, Unallocated, Counted, NobodyJoins,
        encoder, events, context, capture, Goes, CapGoes
<1>1. ASSUME NEW s \in Sessions, Ref(s) PROVE Exclusive'
  BY <1>1 DEF Ref
<1>2. ASSUME NEW s \in Sessions, Queue(s) PROVE Exclusive'
  BY <1>2 DEF Queue
<1>3. ASSUME NEW s \in Sessions, Check(s) PROVE Exclusive'
  BY <1>3 DEF Check
<1>4. ASSUME NEW s \in Sessions, Top(s) PROVE Exclusive'
  BY <1>4 DEF Top
<1>5. ASSUME NEW s \in Sessions, LockDisplay(s) PROVE Exclusive'
  BY <1>5 DEF LockDisplay, Alive
<1>6. ASSUME NEW s \in Sessions, MakeEncoder(s) PROVE Exclusive'
  BY <1>6 DEF MakeEncoder
<1>7. ASSUME NEW s \in Sessions, EncodeLoop(s) PROVE Exclusive'
  BY <1>7 DEF EncodeLoop
<1>8. ASSUME NEW s \in Sessions, PopImage(s) PROVE Exclusive'
  BY <1>8 DEF PopImage
<1>9. ASSUME NEW s \in Sessions, PopNone(s) PROVE Exclusive'
  BY <1>9 DEF PopNone
<1>10. ASSUME NEW s \in Sessions, Encode(s) PROVE Exclusive'
  BY <1>10 DEF Encode
<1>11. ASSUME NEW s \in Sessions, LeaveRun(s) PROVE Exclusive'
  BY <1>11 DEF LeaveRun
<1>12. ASSUME NEW s \in Sessions, Release(s) PROVE Exclusive'
  BY <1>12 DEF Release
<1>13. ASSUME NEW s \in Sessions, Join(s) PROVE Exclusive'
  BY <1>13 DEF Join
<1>14. ASSUME NEW s \in Sessions, StopImages(s) PROVE Exclusive'
  BY <1>14 DEF StopImages
<1>15. ASSUME NEW s \in Sessions, Shutdown(s) PROVE Exclusive'
  BY <1>15 DEF Shutdown
<1>16. ASSUME NEW d \in Displays, Torn(d) PROVE Exclusive'
  BY <1>16 DEF Torn
<1>17. CASE WaitFirst
  BY <1>17 DEF WaitFirst
<1>18. CASE OpenFirst
  BY <1>18 DEF OpenFirst, OpenDisplay
<1>19. CASE PullImage
  BY <1>19 DEF PullImage, Pullable
<1>20. CASE Interrupted
  BY <1>20 DEF Interrupted
<1>21. CASE PushImage
  BY <1>21 DEF PushImage, Push, Listening
<1>22. CASE PushTimeout
  BY <1>22 DEF PushTimeout, Push, Listening
<1>23. CASE Reinit
  BY <1>23 DEF Reinit
<1>24. CASE Count
  BY <1>24 DEF Count, Listening
<1>25. CASE DrainPeek
  BY <1>25 DEF DrainPeek, ToDrain
<1>26. CASE DrainPop
  BY <1>26 DEF DrainPop
<1>27. CASE Drop
  BY <1>27 DEF Drop
<1>28. CASE MakeDisplay
  BY <1>28 DEF MakeDisplay, OpenDisplay
<1>29. CASE Publish
  BY <1>29 DEF Publish
<1>30. CASE Close
  BY <1>30 DEF Close
<1>31. CASE Guard
  BY <1>31 DEF Guard
<1>32. CASE BackendEnds
  BY <1>32 DEF BackendEnds
<1>33. CASE UNCHANGED vars
  BY <1>33 DEF vars
<1> QED BY <1>1, <1>2, <1>3, <1>4, <1>5, <1>6, <1>7, <1>8, <1>9, <1>10, <1>11, <1>12,
           <1>13, <1>14, <1>15, <1>16, <1>17, <1>18, <1>19, <1>20, <1>21, <1>22, <1>23,
           <1>24, <1>25, <1>26, <1>27, <1>28, <1>29, <1>30, <1>31, <1>32, <1>33
    DEF Next, EncoderStep, CaptureStep, Teardowns

(* and every step keeps it.                                                *)
LEMMA InvStep == Inv /\ [Next]_vars => Inv'
BY TypeStep, CountedStep, HasDisplayStep, RoundsStep, EnlistedStep, ExclusiveStep DEF Inv

-----------------------------------------------------------------------------
(* However sessions come and go and displays are lost, Inv holds.          *)
THEOREM Inductive == Spec => []Inv
BY InvInit, InvStep, PTL DEF Spec

(* Every variable of the capture keeps its type, the pool its size         *)
(* (capture_buffer_size), and the threads have a display where they use it. *)
THEOREM TypeCorrect == Spec => []TypeOK
<1>1. Inv => TypeOK
  BY DEF Inv
<1> QED BY <1>1, Inductive, PTL

(* The image the backend captures into is in no session's hands or event,  *)
(* however many sessions take images out of the pool.                      *)
THEOREM ImageIsExclusive == Spec => []ImageExclusive
<1>1. Inv => ImageExclusive
  BY DEF Inv, Exclusive
<1> QED BY <1>1, Inductive, PTL

(* The capture thread runs only while somebody refers to it or joins it,   *)
(* and no session is left waiting for images of one that has ended.        *)
THEOREM NobodyIsForgotten == Spec => []NobodyForgotten
<1>1. Inv => NobodyForgotten
  BY DEF Inv, Counted, Enlisted, NobodyForgotten, NobodyJoins, Holding
<1> QED BY <1>1, Inductive, PTL
===============================================================================

----------------------- MODULE LaunchHandshakeProofs -----------------------
(***************************************************************************)
(* The safety of LaunchHandshake for any number of launches and            *)
(* connections.  IInv adds to the properties what each thread knows of the *)
(* event between its steps: the HTTPS thread that nothing is pending, the  *)
(* control thread that the launch it clears is pending or was discarded.   *)
(***************************************************************************)
EXTENDS LaunchHandshake, TLAPS

(* The invariant holds before the first launch.                            *)
LEMMA InitIInv == Init => IInv
  BY LaunchAssumption DEF Init, IInv, TypeOK, Maybe, Stages, RaisingOK, EventOK,
     ConnOK, Gone, OneClears, PendingIsTimed

(* A launch refused while another is pending changes nothing the others see. *)
LEMMA RefuseKeeps == ASSUME IInv, NEW l \in Launches, Refuse(l) PROVE IInv'
<1> USE LaunchAssumption
<1>1. TypeOK'
  BY DEF IInv, Refuse, TypeOK, Maybe, Stages
<1>2. RaisingOK'
  BY DEF IInv, Refuse, RaisingOK, TypeOK, Maybe
<1>3. EventOK'
  BY DEF IInv, Refuse, EventOK, RaisingOK, TypeOK, Maybe
<1>4. ConnOK'
  BY DEF IInv, Refuse, ConnOK, Gone, EventOK, RaisingOK, TypeOK, Maybe, Stages
<1>5. OneClears'
  BY DEF IInv, Refuse, OneClears, TypeOK, Stages
<1>6. PendingIsTimed'
  BY DEF IInv, Refuse, PendingIsTimed, TypeOK, Maybe, Stages
<1> QED BY <1>1, <1>2, <1>3, <1>4, <1>5, <1>6 DEF IInv

(* session_raise() starts work on a launch having seen none pending. *)
LEMMA AcceptedKeeps == ASSUME IInv, NEW l \in Launches, Accepted(l) PROVE IInv'
<1> USE LaunchAssumption
<1>1. TypeOK'
  BY DEF IInv, Accepted, SeesNonePending, TypeOK, Maybe, Stages
<1>2. RaisingOK'
  BY DEF IInv, Accepted, SeesNonePending, RaisingOK, TypeOK, Maybe
<1>3. EventOK'
  BY DEF IInv, Accepted, SeesNonePending, EventOK, RaisingOK, TypeOK, Maybe
<1>4. ConnOK'
  BY DEF IInv, Accepted, SeesNonePending, ConnOK, Gone, EventOK, RaisingOK, TypeOK, Maybe, Stages
<1>5. OneClears'
  BY DEF IInv, Accepted, SeesNonePending, OneClears, TypeOK, Stages
<1>6. PendingIsTimed'
  BY DEF IInv, Accepted, SeesNonePending, PendingIsTimed, TypeOK, Maybe, Stages
<1> QED BY <1>1, <1>2, <1>3, <1>4, <1>5, <1>6 DEF IInv

(* The raise fills an empty event, as nobody else raises. *)
LEMMA RaiseKeeps == ASSUME IInv, Raise PROVE IInv'
<1> USE LaunchAssumption
<1>1. TypeOK'
  BY DEF IInv, Raise, TypeOK, Maybe, Stages
<1>2. RaisingOK'
  BY DEF IInv, Raise, RaisingOK, TypeOK, Maybe
<1>3. EventOK'
  BY DEF IInv, Raise, EventOK, RaisingOK, TypeOK, Maybe
<1>4. ConnOK'
  BY DEF IInv, Raise, ConnOK, Gone, EventOK, RaisingOK, TypeOK, Maybe, Stages
<1>5. OneClears'
  BY DEF IInv, Raise, OneClears, TypeOK, Stages
<1>6. PendingIsTimed'
  BY DEF IInv, Raise, PendingIsTimed, TypeOK, Maybe, Stages
<1> QED BY <1>1, <1>2, <1>3, <1>4, <1>5, <1>6 DEF IInv

(* The timer takes over from the HTTPS thread. *)
LEMMA ArmKeeps == ASSUME IInv, Arm PROVE IInv'
<1> USE LaunchAssumption
<1>1. TypeOK'
  BY DEF IInv, Arm, TypeOK, Maybe, Stages
<1>2. RaisingOK'
  BY DEF IInv, Arm, RaisingOK, TypeOK, Maybe
<1>3. EventOK'
  BY DEF IInv, Arm, EventOK, RaisingOK, TypeOK, Maybe
<1>4. ConnOK'
  BY DEF IInv, Arm, ConnOK, Gone, EventOK, RaisingOK, TypeOK, Maybe, Stages
<1>5. OneClears'
  BY DEF IInv, Arm, OneClears, TypeOK, Stages
<1>6. PendingIsTimed'
  BY DEF IInv, Arm, PendingIsTimed, TypeOK, Maybe, Stages, RaisingOK
<1> QED BY <1>1, <1>2, <1>3, <1>4, <1>5, <1>6 DEF IInv

(* The queued handler takes over from the timer. *)
LEMMA TimerFiresKeeps == ASSUME IInv, TimerFires PROVE IInv'
<1> USE LaunchAssumption
<1>1. TypeOK'
  BY DEF IInv, TimerFires, RtspFree, TypeOK, Maybe, Stages
<1>2. RaisingOK'
  BY DEF IInv, TimerFires, RtspFree, RaisingOK, TypeOK, Maybe
<1>3. EventOK'
  BY DEF IInv, TimerFires, RtspFree, EventOK, RaisingOK, TypeOK, Maybe
<1>4. ConnOK'
  BY DEF IInv, TimerFires, RtspFree, ConnOK, Gone, EventOK, RaisingOK, TypeOK, Maybe, Stages
<1>5. OneClears'
  BY DEF IInv, TimerFires, RtspFree, OneClears, TypeOK, Stages
<1>6. PendingIsTimed'
  BY DEF IInv, TimerFires, RtspFree, PendingIsTimed, TypeOK, Maybe, Stages
<1> QED BY <1>1, <1>2, <1>3, <1>4, <1>5, <1>6 DEF IInv

(* The handler discards what is pending: a connection given it sees it gone. *)
LEMMA ExpireKeeps == ASSUME IInv, NEW l \in Launches, Expire(l) PROVE IInv'
<1> USE LaunchAssumption
<1>1. TypeOK'
  BY DEF IInv, Expire, Discarded, RtspFree, TypeOK, Maybe, Stages
<1>2. RaisingOK'
  BY DEF IInv, Expire, Discarded, RtspFree, RaisingOK, TypeOK, Maybe
<1>3. EventOK'
  BY DEF IInv, Expire, Discarded, RtspFree, EventOK, RaisingOK, TypeOK, Maybe
<1>4. ConnOK'
  BY DEF IInv, Expire, Discarded, RtspFree, ConnOK, Gone, EventOK, RaisingOK, TypeOK, Maybe, Stages
<1>5. OneClears'
  BY DEF IInv, Expire, Discarded, RtspFree, OneClears, TypeOK, Stages
<1>6. PendingIsTimed'
  BY DEF IInv, Expire, Discarded, RtspFree, PendingIsTimed, TypeOK, Maybe, Stages
<1> QED BY <1>1, <1>2, <1>3, <1>4, <1>5, <1>6 DEF IInv

(* A connection is given the launch that is pending. *)
LEMMA AcceptKeeps == ASSUME IInv, NEW c \in Conns, Accept(c) PROVE IInv'
<1> USE LaunchAssumption
<1>1. TypeOK'
  BY DEF IInv, Accept, RtspFree, Advance, TypeOK, Maybe, Stages
<1>2. RaisingOK'
  BY DEF IInv, Accept, RtspFree, Advance, RaisingOK, TypeOK, Maybe
<1>3. EventOK'
  BY DEF IInv, Accept, RtspFree, Advance, EventOK, RaisingOK, TypeOK, Maybe
<1>4. ConnOK'
  BY DEF IInv, Accept, RtspFree, Advance, ConnOK, Gone, EventOK, RaisingOK, TypeOK, Maybe, Stages
<1>5. OneClears'
  BY DEF IInv, Accept, RtspFree, Advance, OneClears, TypeOK, Stages
<1>6. PendingIsTimed'
  BY DEF IInv, Accept, RtspFree, Advance, PendingIsTimed, TypeOK, Maybe, Stages
<1> QED BY <1>1, <1>2, <1>3, <1>4, <1>5, <1>6 DEF IInv

(* A closed connection claims nothing. *)
LEMMA DropKeeps == ASSUME IInv, NEW c \in Conns, Drop(c) PROVE IInv'
<1> USE LaunchAssumption
<1>1. TypeOK'
  BY DEF IInv, Drop, RtspFree, Advance, TypeOK, Maybe, Stages
<1>2. RaisingOK'
  BY DEF IInv, Drop, RtspFree, Advance, RaisingOK, TypeOK, Maybe
<1>3. EventOK'
  BY DEF IInv, Drop, RtspFree, Advance, EventOK, RaisingOK, TypeOK, Maybe
<1>4. ConnOK'
  BY DEF IInv, Drop, RtspFree, Advance, ConnOK, Gone, EventOK, RaisingOK, TypeOK, Maybe, Stages
<1>5. OneClears'
  BY DEF IInv, Drop, RtspFree, Advance, OneClears, TypeOK, Stages
<1>6. PendingIsTimed'
  BY DEF IInv, Drop, RtspFree, Advance, PendingIsTimed, TypeOK, Maybe, Stages
<1> QED BY <1>1, <1>2, <1>3, <1>4, <1>5, <1>6 DEF IInv

(* An announced connection keeps its launch. *)
LEMMA AnnounceKeeps == ASSUME IInv, NEW c \in Conns, Announce(c) PROVE IInv'
<1> USE LaunchAssumption
<1>1. TypeOK'
  BY DEF IInv, Announce, RtspFree, Advance, TypeOK, Maybe, Stages
<1>2. RaisingOK'
  BY DEF IInv, Announce, RtspFree, Advance, RaisingOK, TypeOK, Maybe
<1>3. EventOK'
  BY DEF IInv, Announce, RtspFree, Advance, EventOK, RaisingOK, TypeOK, Maybe
<1>4. ConnOK'
  BY DEF IInv, Announce, RtspFree, Advance, ConnOK, Gone, EventOK, RaisingOK, TypeOK, Maybe, Stages
<1>5. OneClears'
  BY DEF IInv, Announce, RtspFree, Advance, OneClears, TypeOK, Stages
<1>6. PendingIsTimed'
  BY DEF IInv, Announce, RtspFree, Advance, PendingIsTimed, TypeOK, Maybe, Stages
<1> QED BY <1>1, <1>2, <1>3, <1>4, <1>5, <1>6 DEF IInv

(* So does a session put in the list. *)
LEMMA ListedKeeps == ASSUME IInv, NEW c \in Conns, Listed(c) PROVE IInv'
<1> USE LaunchAssumption
<1>1. TypeOK'
  BY DEF IInv, Listed, CtlFree, Advance, TypeOK, Maybe, Stages
<1>2. RaisingOK'
  BY DEF IInv, Listed, CtlFree, Advance, RaisingOK, TypeOK, Maybe
<1>3. EventOK'
  BY DEF IInv, Listed, CtlFree, Advance, EventOK, RaisingOK, TypeOK, Maybe
<1>4. ConnOK'
  BY DEF IInv, Listed, CtlFree, Advance, ConnOK, Gone, EventOK, RaisingOK, TypeOK, Maybe, Stages
<1>5. OneClears'
  BY DEF IInv, Listed, CtlFree, Advance, OneClears, TypeOK, Stages
<1>6. PendingIsTimed'
  BY DEF IInv, Listed, CtlFree, Advance, PendingIsTimed, TypeOK, Maybe, Stages
<1> QED BY <1>1, <1>2, <1>3, <1>4, <1>5, <1>6 DEF IInv

(* A discarded session claims nothing. *)
LEMMA GiveUpKeeps == ASSUME IInv, NEW c \in Conns, GiveUp(c) PROVE IInv'
<1> USE LaunchAssumption
<1>1. TypeOK'
  BY DEF IInv, GiveUp, CtlFree, Advance, TypeOK, Maybe, Stages
<1>2. RaisingOK'
  BY DEF IInv, GiveUp, CtlFree, Advance, RaisingOK, TypeOK, Maybe
<1>3. EventOK'
  BY DEF IInv, GiveUp, CtlFree, Advance, EventOK, RaisingOK, TypeOK, Maybe
<1>4. ConnOK'
  BY DEF IInv, GiveUp, CtlFree, Advance, ConnOK, Gone, EventOK, RaisingOK, TypeOK, Maybe, Stages
<1>5. OneClears'
  BY DEF IInv, GiveUp, CtlFree, Advance, OneClears, TypeOK, Stages
<1>6. PendingIsTimed'
  BY DEF IInv, GiveUp, CtlFree, Advance, PendingIsTimed, TypeOK, Maybe, Stages
<1> QED BY <1>1, <1>2, <1>3, <1>4, <1>5, <1>6 DEF IInv

(* A session that does not match the pending launch has lost its own. *)
LEMMA ConnectKeeps == ASSUME IInv, NEW c \in Conns, Connect(c) PROVE IInv'
<1> USE LaunchAssumption
<1>1. TypeOK'
  BY DEF IInv, Connect, IdMatches, CtlFree, Advance, TypeOK, Maybe, Stages
<1>2. RaisingOK'
  BY DEF IInv, Connect, IdMatches, CtlFree, Advance, RaisingOK, TypeOK, Maybe
<1>3. EventOK'
  BY DEF IInv, Connect, IdMatches, CtlFree, Advance, EventOK, RaisingOK, TypeOK, Maybe
<1>4. ConnOK'
  BY DEF IInv, Connect, IdMatches, CtlFree, Advance, ConnOK, Gone, EventOK, RaisingOK, TypeOK, Maybe, Stages
<1>5. OneClears'
  BY DEF IInv, Connect, IdMatches, CtlFree, Advance, OneClears, TypeOK, Stages
<1>6. PendingIsTimed'
  BY DEF IInv, Connect, IdMatches, CtlFree, Advance, PendingIsTimed, TypeOK, Maybe, Stages
<1> QED BY <1>1, <1>2, <1>3, <1>4, <1>5, <1>6 DEF IInv

(* The control thread takes over from the timer. *)
LEMMA ClearCancelKeeps == ASSUME IInv, NEW c \in Conns, ClearCancel(c) PROVE IInv'
<1> USE LaunchAssumption
<1>1. TypeOK'
  BY DEF IInv, ClearCancel, Advance, TypeOK, Maybe, Stages
<1>2. RaisingOK'
  BY DEF IInv, ClearCancel, Advance, RaisingOK, TypeOK, Maybe
<1>3. EventOK'
  BY DEF IInv, ClearCancel, Advance, EventOK, RaisingOK, TypeOK, Maybe
<1>4. ConnOK'
  BY DEF IInv, ClearCancel, Advance, ConnOK, Gone, EventOK, RaisingOK, TypeOK, Maybe, Stages
<1>5. OneClears'
  BY DEF IInv, ClearCancel, Advance, OneClears, TypeOK, Stages
<1>6. PendingIsTimed'
  BY DEF IInv, ClearCancel, Advance, PendingIsTimed, TypeOK, Maybe, Stages
<1> QED BY <1>1, <1>2, <1>3, <1>4, <1>5, <1>6 DEF IInv

(* What is popped is gone, and by OneClears nobody else was about to pop it. *)
LEMMA ClearPopKeeps == ASSUME IInv, NEW c \in Conns, ClearPop(c) PROVE IInv'
<1> USE LaunchAssumption
<1>1. TypeOK'
  BY DEF IInv, ClearPop, Advance, TypeOK, Maybe, Stages
<1>2. RaisingOK'
  BY DEF IInv, ClearPop, Advance, RaisingOK, TypeOK, Maybe
<1>3. EventOK'
  BY DEF IInv, ClearPop, Advance, EventOK, RaisingOK, TypeOK, Maybe
<1>4. ConnOK'
  BY DEF IInv, ClearPop, Advance, ConnOK, Gone, EventOK, RaisingOK, TypeOK, Maybe, Stages, OneClears
<1>5. OneClears'
  BY DEF IInv, ClearPop, Advance, OneClears, TypeOK, Stages
<1>6. PendingIsTimed'
  BY DEF IInv, ClearPop, Advance, PendingIsTimed, TypeOK, Maybe, Stages
<1> QED BY <1>1, <1>2, <1>3, <1>4, <1>5, <1>6 DEF IInv

(* Every step preserves the invariant.                                     *)
LEMMA NextIInv == IInv /\ [Next]_vars => IInv'
<1> SUFFICES ASSUME IInv, [Next]_vars PROVE IInv'
  OBVIOUS
<1>1. ASSUME \E l \in Launches : Refuse(l) PROVE IInv'
  BY <1>1, RefuseKeeps
<1>2. ASSUME \E l \in Launches : Accepted(l) PROVE IInv'
  BY <1>2, AcceptedKeeps
<1>3. ASSUME Raise PROVE IInv'
  BY <1>3, RaiseKeeps
<1>4. ASSUME Arm PROVE IInv'
  BY <1>4, ArmKeeps
<1>5. ASSUME TimerFires PROVE IInv'
  BY <1>5, TimerFiresKeeps
<1>6. ASSUME \E l \in Launches : Expire(l) PROVE IInv'
  BY <1>6, ExpireKeeps
<1>7. ASSUME \E c \in Conns : Accept(c) PROVE IInv'
  BY <1>7, AcceptKeeps
<1>8. ASSUME \E c \in Conns : Drop(c) PROVE IInv'
  BY <1>8, DropKeeps
<1>9. ASSUME \E c \in Conns : Announce(c) PROVE IInv'
  BY <1>9, AnnounceKeeps
<1>10. ASSUME \E c \in Conns : Listed(c) PROVE IInv'
  BY <1>10, ListedKeeps
<1>11. ASSUME \E c \in Conns : GiveUp(c) PROVE IInv'
  BY <1>11, GiveUpKeeps
<1>12. ASSUME \E c \in Conns : Connect(c) PROVE IInv'
  BY <1>12, ConnectKeeps
<1>13. ASSUME \E c \in Conns : ClearCancel(c) PROVE IInv'
  BY <1>13, ClearCancelKeeps
<1>14. ASSUME \E c \in Conns : ClearPop(c) PROVE IInv'
  BY <1>14, ClearPopKeeps
<1>15. CASE UNCHANGED vars
  BY <1>15 DEF vars, IInv, TypeOK, Maybe, Stages, RaisingOK, EventOK, ConnOK, Gone,
     OneClears, PendingIsTimed
<1> QED BY <1>1, <1>2, <1>3, <1>4, <1>5, <1>6, <1>7, <1>8, <1>9, <1>10, <1>11, <1>12, <1>13, <1>14, <1>15
  DEF Next, HttpsNext, RtspNext, CtlNext

(* IInv holds in every reachable state.                                    *)
THEOREM Inductive == Spec => []IInv
<1>1. Init => IInv
  BY InitIInv
<1>2. IInv /\ [Next]_vars => IInv'
  BY NextIInv
<1> QED BY <1>1, <1>2, PTL DEF Spec

(* The variables keep their types.                                         *)
THEOREM TypeCorrect == Spec => []TypeOK
<1>1. IInv => TypeOK
  BY DEF IInv
<1> QED BY <1>1, Inductive, PTL

(* A pending launch always has something that will take it out.            *)
THEOREM PendingLaunchIsTimed == Spec => []PendingIsTimed
<1>1. IInv => PendingIsTimed
  BY DEF IInv
<1> QED BY <1>1, Inductive, PTL

(* The launch of an established session is not pending any more.           *)
THEOREM EstablishedLaunchIsGone == Spec => []EstablishedIsNotPending
<1>1. IInv => EstablishedIsNotPending
  BY LaunchAssumption
  DEF IInv, ConnOK, EventOK, Gone, EstablishedIsNotPending, TypeOK, Maybe
<1> QED BY <1>1, Inductive, PTL

(* session_clear() takes another launch than its own only when its own was *)
(* discarded between the comparison of the ids and the pop.                *)
THEOREM ClearIsExact == Spec => []ClearsItsOwn
<1>1. IInv => ClearsItsOwn
  BY DEF IInv, ConnOK, ClearsItsOwn
<1> QED BY <1>1, Inductive, PTL

(* No step replaces a pending launch by another one.                       *)
THEOREM PendingIsNeverOverwritten == Spec => NeverOverwritten
<1>1. IInv /\ [Next]_vars => [event # NoLaunch => event' \in {event, NoLaunch}]_vars
  <2> SUFFICES ASSUME IInv, Next, event # NoLaunch
               PROVE  event' \in {event, NoLaunch}
    BY DEF vars
  <2>1. CASE HttpsNext
    BY <2>1 DEF HttpsNext, Raise, Arm, Refuse, Accepted, IInv, RaisingOK
  <2>2. CASE RtspNext
    BY <2>2 DEF RtspNext, TimerFires, Expire, Accept, Drop, Announce, Listed
  <2>3. CASE CtlNext
    BY <2>3 DEF CtlNext, GiveUp, Connect, ClearCancel, ClearPop
  <2> QED BY <2>1, <2>2, <2>3 DEF Next
<1> QED BY <1>1, Inductive, PTL DEF Spec, NeverOverwritten
=============================================================================

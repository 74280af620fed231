----------------------------- MODULE InputBatch -----------------------------
(***************************************************************************)
(* Batching of queued input messages (input.cpp).  A later message may be  *)
(* merged into the one about to be sent; the outcome of one attempt is     *)
(* batch_result_e.  A message is a record with its kind and the fields     *)
(* the decision looks at; "at" stands for the payload, of which the latest *)
(* is taken.                                                               *)
(***************************************************************************)
EXTENDS Integers

Int16 == {n \in Int : -32768 <= n /\ n < 32768}
Wrap16(n) == ((n + 32768) % 65536) - 32768
Overflows(a, b) == a + b \notin Int16

Terminate == [result |-> "terminate_batch"]
NotBatchable == [result |-> "not_batchable"]
Batched(m) == [result |-> "batched", message |-> m]
Moving(m) == m.event \in {"MOVE", "HOVER"}

(* __builtin_add_overflow() returns true when the sum does NOT fit.        *)
BatchRelative(dest, src) ==
  IF ~Overflows(dest.dx, src.dx) \/ ~Overflows(dest.dy, src.dy) THEN Terminate
  ELSE Batched([dest EXCEPT !.dx = Wrap16(@ + src.dx), !.dy = Wrap16(@ + src.dy)])

BatchAbsolute(dest, src) ==
  IF dest.size # src.size THEN Terminate ELSE Batched(src)

BatchScroll(dest, src) ==
  IF ~Overflows(dest.amount, src.amount) THEN Terminate
  ELSE Batched([dest EXCEPT !.amount = Wrap16(@ + src.amount)])

(* An attempt stops the batch, or skips the message, or merges it.         *)
Attempt(stop, skip, merged) ==
  IF stop THEN Terminate ELSE IF skip THEN NotBatchable ELSE Batched(merged)

BatchPad(dest, src) ==
  Attempt(dest.mask # src.mask \/ (dest.pad = src.pad /\ dest.buttons # src.buttons),
          dest.pad # src.pad, src)

(* Mutant: messages of other pointers are merged too.                      *)
BatchTouchAnyBug(dest, src) ==
  Attempt(~Moving(dest) \/ ~Moving(src) \/ dest.event # src.event, FALSE, src)

BatchTouch(dest, src) ==
  Attempt(\/ ~Moving(dest) \/ ~Moving(src)
          \/ dest.pointer = src.pointer /\ dest.event # src.event,
          dest.pointer # src.pointer, src)

BatchPen(dest, src) ==
  Attempt(\/ ~Moving(dest) \/ dest.event # src.event
          \/ dest.buttons # src.buttons \/ dest.tool # src.tool, FALSE, src)

BatchPadTouch(dest, src) ==
  IF Moving(dest) /\ dest.pad # src.pad THEN NotBatchable ELSE BatchTouch(dest, src)

BatchMotion(dest, src) ==
  Attempt(FALSE, dest.pad # src.pad \/ dest.sensor # src.sensor, src)

Batch(dest, src) ==
  CASE dest.kind # src.kind -> Terminate
    [] dest.kind = "relative" /\ src.kind = "relative" -> BatchRelative(dest, src)
    [] dest.kind = "absolute" /\ src.kind = "absolute" -> BatchAbsolute(dest, src)
    [] dest.kind = "scroll" /\ src.kind = "scroll" -> BatchScroll(dest, src)
    [] dest.kind = "hscroll" /\ src.kind = "hscroll" -> BatchScroll(dest, src)
    [] dest.kind = "pad" /\ src.kind = "pad" -> BatchPad(dest, src)
    [] dest.kind = "touch" /\ src.kind = "touch" -> BatchTouch(dest, src)
    [] dest.kind = "pen" /\ src.kind = "pen" -> BatchPen(dest, src)
    [] dest.kind = "padTouch" /\ src.kind = "padTouch" -> BatchPadTouch(dest, src)
    [] dest.kind = "motion" /\ src.kind = "motion" -> BatchMotion(dest, src)
    [] OTHER -> Terminate
=============================================================================

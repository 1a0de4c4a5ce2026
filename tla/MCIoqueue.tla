----------------------------- MODULE MCIoqueue -----------------------------
(* Instances of Ioqueue for TLC. *)
EXTENDS Ioqueue, TLC

CONSTANTS p1, p2, a1, a2

\* Pollers, and application threads that make the calls C.
PollersAnd(C) == [t \in Threads |-> IF t \in {p1, p2} THEN {"poll"} ELSE C]

CallsLife    == PollersAnd({"register", "unregister", "recv"})
CallsPost    == PollersAnd({"register", "unregister", "recv", "post"})
CallsIo      == PollersAnd({"register", "unregister", "send", "accept",
                            "set_concurrency"})
CallsConnect == PollersAnd({"register", "unregister", "connect"})

\* Keys are interchangeable, and so are operations.
KeyOpSymmetry == Permutations(Keys) \cup Permutations(Ops)
=============================================================================

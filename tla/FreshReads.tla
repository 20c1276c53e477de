----------------------------- MODULE FreshReads -----------------------------
(***************************************************************************)
(* What the answers of the service promise its clients about the files.    *)
(* Only edits, calls and answers are left here; projects, locks, the store *)
(* and the graph are how Provider keeps the promise.                       *)
(*                                                                         *)
(* Clients of one provider talk to each other: a version that one of them  *)
(* knows to be in use, from an answered notification or from an answer in  *)
(* which it appeared, is a version that no call made afterwards may miss.  *)
(***************************************************************************)
EXTENDS Naturals

CONSTANTS File, Reader

VARIABLES
    disk,     \* disk[f]: the version of f on disk
    acked,    \* acked[f]: the newest version of f that a client knows of
    status,   \* status[r]: is the call of r made, under way, answered?
    floor,    \* floor[r]: acked, when the call was made
    seen      \* seen[r]: the versions that the answer was taken from

vars == <<disk, acked, status, floor, seen>>

Versions == [File -> Nat]
Upto(low, high) == \A f \in File : low[f] <= high[f]

TypeOK ==
    /\ disk \in Versions /\ acked \in Versions
    /\ status \in [Reader -> {"idle", "called", "answered", "failed"}]
    /\ floor \in [Reader -> Versions] /\ seen \in [Reader -> Versions]

Init ==
    /\ disk = [f \in File |-> 1] /\ acked = [f \in File |-> 0]
    /\ status = [r \in Reader |-> "idle"]
    /\ floor = [r \in Reader |-> [f \in File |-> 0]]
    /\ seen = [r \in Reader |-> [f \in File |-> 0]]

Edit(f) ==
    /\ disk' = [disk EXCEPT ![f] = disk[f] + 1]
    /\ UNCHANGED <<acked, status, floor, seen>>

\* A notification is answered: what it has read is from now on known.
Acknowledge ==
    /\ acked' \in [File -> Nat] /\ Upto(acked, acked') /\ Upto(acked', disk)
    /\ UNCHANGED <<disk, status, floor, seen>>

\* An evaluate is called, or refused at once.
Call(r) ==
    /\ status[r] = "idle"
    /\ \E s \in {"called", "failed"} : status' = [status EXCEPT ![r] = s]
    /\ floor' = [floor EXCEPT ![r] = acked]
    /\ UNCHANGED <<disk, acked, seen>>

\* It is answered from versions no older than those known when it was called and
\* no newer than those on disk.  Clients then know those of the files it shows.
Answer(r) ==
    /\ status[r] = "called" /\ status' = [status EXCEPT ![r] = "answered"]
    /\ seen' \in [Reader -> Versions] /\ \A q \in Reader \ {r} : seen'[q] = seen[q]
    /\ Upto(floor[r], seen'[r]) /\ Upto(seen'[r], disk)
    /\ \E shown \in SUBSET File :
          acked' = [f \in File |-> IF f \in shown /\ seen'[r][f] > acked[f]
                                   THEN seen'[r][f] ELSE acked[f]]
    /\ UNCHANGED <<disk, floor>>

\* Calls end without an answer from the graph: an error, a client that has gone
\* away, a crash that takes every call with it.
Fail ==
    /\ \E lost \in SUBSET {r \in Reader : status[r] = "called"} :
          status' = [r \in Reader |-> IF r \in lost THEN "failed" ELSE status[r]]
    /\ UNCHANGED <<disk, acked, floor, seen>>

Next ==
    \/ \E f \in File : Edit(f)
    \/ Acknowledge
    \/ \E r \in Reader : Call(r) \/ Answer(r)
    \/ Fail

Spec == Init /\ [][Next]_vars
=============================================================================

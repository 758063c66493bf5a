--------------------------- MODULE PriorityLines ----------------------------
(***************************************************************************)
(* What pools and a queue promise to processes that pass buffers: there is *)
(* one line for each priority, buffers are taken from the front of the     *)
(* highest line that is not empty, and no buffer has two owners.           *)
(***************************************************************************)
EXTENDS Integers, Sequences

CONSTANTS Proc, Buf, NULL, Keys

VARIABLES
  line,    \* for each priority, the buffers queued with it, oldest first
  held     \* for each process, its buffer or NULL

Owned == {held[p] : p \in Proc} \cup UNION {{line[k][i] : i \in DOMAIN line[k]} : k \in Keys}

Init ==
  /\ line = [k \in Keys |-> <<>>]
  /\ held = [p \in Proc |-> NULL]

Get(p) ==
  /\ held[p] = NULL
  /\ \E b \in Buf \ Owned : held' = [held EXCEPT ![p] = b]
  /\ UNCHANGED line

Free(p) ==
  /\ held[p] # NULL
  /\ held' = [held EXCEPT ![p] = NULL]
  /\ UNCHANGED line

Insert(p, k) ==
  /\ held[p] # NULL
  /\ line' = [line EXCEPT ![k] = Append(@, held[p])]
  /\ held' = [held EXCEPT ![p] = NULL]

Remove(p, k) ==
  /\ held[p] = NULL
  /\ line[k] # <<>> /\ \A j \in Keys : j > k => line[j] = <<>>
  /\ held' = [held EXCEPT ![p] = Head(line[k])]
  /\ line' = [line EXCEPT ![k] = Tail(@)]

Next ==
  \E p \in Proc : \/ Get(p) \/ Free(p)
                  \/ \E k \in Keys : Insert(p, k) \/ Remove(p, k)

Spec == Init /\ [][Next]_<<line, held>>
=============================================================================

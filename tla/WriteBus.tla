------------------------------ MODULE WriteBus ------------------------------
(***************************************************************************)
(* What the write-behind bus promises its agents, with no journal, drain,  *)
(* retry, watermark or thread in sight.  A write is accepted once; writes  *)
(* of one lane reach the store in the order they were accepted, several at *)
(* a time, each at most once; the bus may reject the oldest write of a     *)
(* lane; a crash may cut off the newest writes of each lane that are not   *)
(* stored, and never one that is; an answer, once given, says what became  *)
(* of the write.  ContextEngineBus shows that the engine implements this.  *)
(***************************************************************************)
EXTENDS Integers

CONSTANTS
  Request,   \* the writes
  Lane,      \* what orders them
  LaneOf,    \* LaneOf[r]: the lane of write r
  Number     \* sequence numbers, a set of natural numbers

VARIABLES
  taken,     \* writes the bus has accepted
  pending,   \* accepted writes without an outcome, with their numbers
  stored,    \* writes the readers of the store see
  answer     \* what the agent was told: none, durable or failed

busVars == <<taken, pending, stored, answer>>

Numbered == [lane : Lane, seq : Number, req : Request]

\* The pending writes of lane l numbered n or less.
UpTo(l, n) == {e \in pending : e.lane = l /\ e.seq <= n}

Init ==
  /\ taken = {}
  /\ pending = {}
  /\ stored = {}
  /\ answer = [r \in Request |-> "none"]

\* A write joins its lane behind every write pending there.
Accept(r) ==
  /\ r \notin taken
  /\ taken' = taken \cup {r}
  /\ \E n \in Number :
       /\ \A e \in pending : e.lane = LaneOf[r] => e.seq < n
       /\ pending' = pending \cup {[lane |-> LaneOf[r], seq |-> n, req |-> r]}
  /\ UNCHANGED <<stored, answer>>

\* The oldest writes of a lane reach the store together.
Store(l, n) ==
  /\ UpTo(l, n) # {}
  /\ stored' = stored \cup {e.req : e \in UpTo(l, n)}
  /\ pending' = pending \ UpTo(l, n)
  /\ UNCHANGED <<taken, answer>>

\* The oldest write of a lane is refused.
Refuse(e) ==
  /\ UpTo(e.lane, e.seq) = {e}
  /\ pending' = pending \ {e}
  /\ UNCHANGED <<taken, stored, answer>>

\* A crash: of every lane, some of the oldest pending writes remain.
Crash ==
  /\ \E n \in [Lane -> Number] :
       pending' = {e \in pending : e.seq <= n[e.lane]}
  /\ UNCHANGED <<taken, stored, answer>>

Answer(r) ==
  /\ r \in taken
  /\ answer[r] = "none"
  /\ \/ r \in stored /\ answer' = [answer EXCEPT ![r] = "durable"]
     \/ /\ r \notin stored \cup {e.req : e \in pending}
        /\ answer' = [answer EXCEPT ![r] = "failed"]
  /\ UNCHANGED <<taken, pending, stored>>

Next ==
  \/ \E r \in Request : Accept(r) \/ Answer(r)
  \/ \E l \in Lane, n \in Number : Store(l, n)
  \/ \E e \in pending : Refuse(e)
  \/ Crash

Spec == Init /\ [][Next]_busVars
=============================================================================

-------------------------- MODULE ContextEngineBus --------------------------
(***************************************************************************)
(* The engine implements the bus, as long as no machine loses power, no    *)
(* transaction fails after its commit, and either no journal write is cut  *)
(* inside a line or every start reclaims the journals before anything is   *)
(* appended to them (RefinementProofs).                                    *)
(***************************************************************************)
EXTENDS ContextEngine

\* What is pending: while no engine has finished its replay, the records above
\* the checkpoint; then the requests of the running drain and of the queue
\* that the checkpoint has not passed.
JournalPending(s) ==
  {[lane |-> s, seq |-> jfile[s][i].seq, req |-> jfile[s][i].req] :
     i \in Pending(s)}

QueuePending(s) ==
  LET q == work[s] \o buf[s]
  IN  {[lane |-> s, seq |-> q[i].seq, req |-> q[i].req] :
         i \in {k \in DOMAIN q : q[k].seq > Ckpt(s)}}

PendingBar ==
  UNION {IF phase \in {"down", "replay"} THEN JournalPending(s)
                                         ELSE QueuePending(s) : s \in Shard}

\* A write applied twice counts as lost: no step of the bus removes a write.
StoredBar == {r \in Request : db[DomainOf(ShardOf(r))].applied[r] = 1}

Bus == INSTANCE WriteBus WITH
         Lane    <- Shard,
         LaneOf  <- [r \in Request |-> ShardOf(r)],
         Number  <- 0 .. Cardinality(Request),
         taken   <- accepted,
         pending <- PendingBar,
         stored  <- StoredBar,
         answer  <- told

\* The bus's promise: acceptance order per shard, at most one application of a
\* write, outcomes that are final, crashes that cost only the newest writes.
ImplementsBus == Bus!Spec
=============================================================================

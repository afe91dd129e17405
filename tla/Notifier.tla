------------------------------ MODULE Notifier ------------------------------
(****************************************************************************)
(* TelegramEventNotifier.run_once: poll the event log after a durable       *)
(* cursor, send what is notifiable, advance the cursor event by event.      *)
(****************************************************************************)
EXTENDS Naturals, FiniteSets, Sequences

CONSTANTS
  Notifiable,    \* _NOTIFIABLE
  Batch,         \* limit of list_events_after_cursor
  MaxSendFaults  \* bound on refused sends and restarts of the bot

VARIABLES
  events,      \* committed events, [at |-> time stamp, kind |-> ...]
  cursor,      \* the time stamp of the event processed last; 0 is no cursor
  run,         \* run_once: step and the events still to be handled
  sent,        \* history: the events sent at least once
  skipped,     \* history: events that were in the log before the first run, or
               \* were committed behind one that was already listed or sent
  sendFaults

notifier == <<cursor, run, sent, skipped, sendFaults>>

Idle == [pc |-> "idle", todo |-> <<>>]
NotInit ==
  cursor = 0 /\ run = Idle /\ sent = {} /\ skipped = {} /\ sendFaults = 0

Failing == sendFaults < MaxSendFaults /\ sendFaults' = sendFaults + 1

\* The events listed after a cursor, in the order of their time stamps.
After(t) == {e \in events : e.at > t}
Listing(S) ==
  CHOOSE s \in [1..Cardinality(S) -> S] : \A i, j \in DOMAIN s : i < j => s[i].at < s[j].at

\* initialize_event_cursor: the first run skips what is in the log.
Initialize ==
  /\ run.pc = "idle" /\ cursor = 0 /\ events # {}
  /\ cursor' = (CHOOSE e \in events : \A f \in events : f.at <= e.at).at
  /\ skipped' = skipped \cup events
  /\ UNCHANGED <<events, run, sent, sendFaults>>

\* list_events_after_cursor.
ListEvents ==
  /\ run.pc = "idle" /\ (cursor # 0 \/ events = {})
  /\ run' = [pc |-> "list", todo |-> <<>>]
  /\ UNCHANGED <<events, cursor, sent, skipped, sendFaults>>
FaultyListed ==
  LET all == [i \in 1..Cardinality(After(cursor)) |->
                Listing(After(cursor))[Cardinality(After(cursor)) + 1 - i]] IN
  /\ run.pc = "list"
  /\ run' = IF all = <<>> THEN Idle
            ELSE [pc |-> "send",
                  todo |-> SubSeq(all, 1, IF Len(all) < Batch THEN Len(all) ELSE Batch)]
  /\ UNCHANGED <<events, cursor, sent, skipped, sendFaults>>
Listed ==
  LET all == Listing(After(cursor)) IN
  /\ run.pc = "list"
  /\ run' = IF all = <<>> THEN Idle
            ELSE [pc |-> "send",
                  todo |-> SubSeq(all, 1, IF Len(all) < Batch THEN Len(all) ELSE Batch)]
  /\ UNCHANGED <<events, cursor, sent, skipped, sendFaults>>

\* A refused send raises out of run_once; the next run starts at the cursor.
FaultySendHead ==
  LET e == Head(run.todo) IN
  /\ run.pc = "send" /\ run' = [run EXCEPT !.pc = "advance"]
  /\ \/ e.kind \in Notifiable /\ sent' = sent \cup {e} /\ UNCHANGED sendFaults
     \/ e.kind \notin Notifiable /\ UNCHANGED <<sent, sendFaults>>
     \/ e.kind \in Notifiable /\ Failing /\ UNCHANGED sent
  /\ UNCHANGED <<events, cursor, skipped>>
SendHead ==
  LET e == Head(run.todo) IN
  /\ run.pc = "send"
  /\ \/ /\ e.kind \in Notifiable /\ sent' = sent \cup {e}
        /\ run' = [run EXCEPT !.pc = "advance"] /\ UNCHANGED sendFaults
     \/ /\ e.kind \notin Notifiable /\ run' = [run EXCEPT !.pc = "advance"]
        /\ UNCHANGED <<sent, sendFaults>>
     \/ /\ e.kind \in Notifiable /\ Failing /\ run' = Idle /\ UNCHANGED sent
  /\ UNCHANGED <<events, cursor, skipped>>

\* advance_event_cursor, a transaction of its own for every event.
FaultyAdvance ==
  /\ run.pc = "advance"
  /\ cursor' = IF Len(run.todo) = 1 THEN Head(run.todo).at ELSE cursor
  /\ run' = IF Len(run.todo) = 1 THEN Idle
            ELSE [pc |-> "send", todo |-> Tail(run.todo)]
  /\ UNCHANGED <<events, sent, skipped, sendFaults>>
Advance ==
  /\ run.pc = "advance"
  /\ cursor' = Head(run.todo).at
  /\ run' = IF Len(run.todo) = 1 THEN Idle
            ELSE [pc |-> "send", todo |-> Tail(run.todo)]
  /\ UNCHANGED <<events, sent, skipped, sendFaults>>

RestartBot ==
  /\ run # Idle /\ Failing /\ run' = Idle
  /\ UNCHANGED <<events, cursor, sent, skipped>>

Notify == Initialize \/ ListEvents \/ Listed \/ SendHead \/ Advance
NotNext == Notify \/ RestartBot
=============================================================================

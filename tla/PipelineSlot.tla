---------------------------- MODULE PipelineSlot ----------------------------
(***************************************************************************)
(* What the job runner of internal/api promises, without its mutex, its    *)
(* job record or its goroutines: the recomputation of the analytic tables  *)
(* is a slot with at most one occupant, and a ticker that was queued while *)
(* the slot was taken goes, together with the whole queue, to the occupant *)
(* that takes the slot over.  Only the death of the process loses a queue. *)
(***************************************************************************)
EXTENDS Naturals, FiniteSets

CONSTANT Tickers

VARIABLES occupants,  \* who is recomputing now: Refresh or a job number
          working,    \* tickers the occupant was started for
          queued,     \* tickers that wait for the slot
          last        \* number of the last job

slotVars == <<occupants, working, queued, last>>

\* The synchronous recomputation is not a job; job numbers start at 1.
Refresh == 0

SlotInit == occupants = {} /\ working = {} /\ queued = {} /\ last = 0

StartJob(tickers) ==
    /\ last' = last + 1
    /\ occupants' = {last + 1}
    /\ working' = tickers

TakeForJob == /\ occupants = {}
              /\ \/ StartJob({})
                 \/ \E t \in Tickers : StartJob({t})
              /\ UNCHANGED queued

TakeForRefresh == /\ occupants = {}
                  /\ occupants' = {Refresh}
                  /\ UNCHANGED <<working, queued, last>>

\* A ticker the occupant is already working on is not queued again.
Enqueue == /\ occupants # {}
           /\ \E t \in Tickers \ working : queued' = queued \cup {t}
           /\ UNCHANGED <<occupants, working, last>>

\* The occupant leaves: the slot is free, or the queue takes it over at once.
Leave == /\ occupants # {}
         /\ IF queued = {}
            THEN /\ occupants' = {}
                 /\ working' = {}
                 /\ UNCHANGED <<queued, last>>
            ELSE /\ StartJob(queued)
                 /\ queued' = {}

Die == occupants' = {} /\ working' = {} /\ queued' = {} /\ last' = 0

SlotNext == TakeForJob \/ TakeForRefresh \/ Enqueue \/ Leave \/ Die

SlotSpec == SlotInit /\ [][SlotNext]_slotVars
=============================================================================

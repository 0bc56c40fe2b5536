---------------------------- MODULE WriterTurns -----------------------------
(***************************************************************************)
(* That the calls of ArchiveWriter return.  A turn of a loop may leave the *)
(* archive and the object as they were, when finish goes on although the   *)
(* object took nothing.  Such a step cannot be told from a stutter, and    *)
(* fairness would not let a poll repeat it for ever as the code does.  The *)
(* auxiliary variable `turn' changes with every turn of a running poll and *)
(* nothing depends on it, so each turn is a step that counts.              *)
(***************************************************************************)
EXTENDS ArchiveWriter

VARIABLE turn   \* alternates while a poll runs, FALSE when none does

turns == <<vars, turn>>

Turn == Step /\ turn' = (poll' = "running" /\ ~ turn)

(* The turns the io object can hold up, when it does not.  Ok(0) is an     *)
(* answer as well.                                                         *)
IoAnswers ==
  /\ \/ HeaderWrite \/ EntryWrite \/ AlignWrite \/ EndWrite
     \/ FlushReturns \/ Shutdown
  /\ turn' = (poll' = "running" /\ ~ turn)

Woken == Wake /\ UNCHANGED turn

TurnInit == Init /\ turn = FALSE
TurnNext == Turn \/ Woken \/ (Task /\ UNCHANGED turn)

(* A poll runs to its end; a parked task is woken; an io object that is    *)
(* polled for ever is not pending for ever.                                *)
FairTurns ==
  /\ TurnInit /\ [][TurnNext]_turns
  /\ WF_turns(Turn) /\ WF_turns(Woken) /\ SF_turns(IoAnswers)

-----------------------------------------------------------------------------
(* A call returns, or panics, if the object is not pending for ever: no    *)
(* loop of a poll_ function spins (write/mod.rs:23, 112, 187), but for one *)
(* (write/mod.rs:150): finish does not look at how much of the end marker  *)
(* was taken, and asks an object that takes nothing again without end.     *)
EndTakesNothing == EndWrite /\ Len(Image') = Len(Image)

CallsReturn == (Busy ~> ~ Busy) \/ []<><<EndTakesNothing>>_turns
=============================================================================

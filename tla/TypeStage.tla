------------------------------ MODULE TypeStage ------------------------------
(***************************************************************************)
(* The stage as a whole: TypeInferEngine::new, which ends with             *)
(* compute_rpo, and then infer().                                          *)
(*                                                                         *)
(* Of the order that compute_rpo returns, propagate_rpo uses the registers *)
(* only, as a batch of updates is applied in any order (TypeInfer); so the *)
(* order, with the locals of the search, is forgotten when the engine is   *)
(* built.  Collect goes over all registers of the program, which is what   *)
(* OrderIsComplete says that rpo_order holds.                              *)
(***************************************************************************)
EXTENDS TypeInfer, RpoOrder

VARIABLE built   \* has TypeInferEngine::new returned?

stage_vars == <<vars, rpo_vars, built>>

StageInit == Init /\ RpoInit /\ program = prog /\ built = FALSE

OrderRegisters ==
  /\ ~built
  /\ RpoNext
  /\ UNCHANGED <<vars, built>>

EngineBuilt ==
  /\ done /\ ~built
  /\ built' = TRUE
  /\ visited' = {} /\ order' = <<>>
  /\ UNCHANGED <<vars, program, roots, stack, done>>

Infer == built /\ Next /\ UNCHANGED <<rpo_vars, built>>

StageNext == OrderRegisters \/ EngineBuilt \/ Infer

(* One sequential call, from Init to its return. *)
StageSpec == StageInit /\ [][StageNext]_stage_vars /\ WF_stage_vars(StageNext)

-----------------------------------------------------------------------------
(***************************************************************************)
(* propagate_rpo: the batches of the sweeps, which go over rpo_order, miss *)
(* no register and take none twice.                                        *)
(***************************************************************************)
SweepsCoverProgram == ~built => OrderIsComplete

(* What the comment on the sweeps (stage_type_infer.rs:134-136) takes rpo_order to be. *)
SweepsDefinitionsFirst == ~built => DefinitionsFirst
=============================================================================

------------------------------ MODULE MCSkill ------------------------------
(***************************************************************************)
(* Model checking of module Skill: a few messages of one conversation.     *)
(***************************************************************************)
EXTENDS Skill, TLC

HandlerSymmetry == Permutations(Handlers)
=============================================================================

--------------------------- MODULE PageDescriptor ---------------------------
(***************************************************************************)
(* The state of a page descriptor, which only changes in the ways that the *)
(* set_state_* functions check.                                            *)
(***************************************************************************)
EXTENDS PagingState

set_state_free(pd) ==
  /\ DieUnless(state[pd] = "LEAVING", "set_state_free")
  /\ state' = [state EXCEPT ![pd] = "FREE"]

set_state_filling(pd) ==
  /\ DieUnless(state[pd] = "FREE", "set_state_filling")
  /\ state' = [state EXCEPT ![pd] = "FILLING"]

set_state_present(pd) ==
  /\ DieUnless(state[pd] \in {"FILLING", "UPDATING"}, "set_state_present")
  /\ state' = [state EXCEPT ![pd] = "PRESENT"]

set_state_updating(pd) ==
  /\ DieUnless(state[pd] = "PRESENT", "set_state_updating")
  /\ state' = [state EXCEPT ![pd] = "UPDATING"]
=============================================================================

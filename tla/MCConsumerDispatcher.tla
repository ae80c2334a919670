------------------------ MODULE MCConsumerDispatcher ------------------------
(* A dispatcher with two consumers, a ring of two slots and two producers   *)
(* whose inputs are empty or of two sizes.  Four elements make the ring     *)
(* wrap around twice.                                                       *)
EXTENDS ConsumerDispatcher

MCInputSizes == {0, 1, 2}
=============================================================================

-------------------------- MODULE MCCallbackInbox --------------------------
(* Instances of CallbackInbox for TLC: every callback is about one bill. *)
EXTENDS CallbackInbox

MCBillOf == [c \in Callback |-> CHOOSE b \in Bill : TRUE]
=============================================================================

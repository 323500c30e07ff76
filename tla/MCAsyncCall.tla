------------------------------- MODULE MCAsyncCall -------------------------------
(* Two waiters and every kind of callback. *)
EXTENDS AsyncCall

MCCallbacks == CallbackKinds
===============================================================================

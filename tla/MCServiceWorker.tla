-------------------------- MODULE MCServiceWorker --------------------------
(* Two precached files and one that is not. *)
EXTENDS ServiceWorker
=============================================================================

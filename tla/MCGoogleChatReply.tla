-------------------------- MODULE MCGoogleChatReply --------------------------
(* One Google Chat message, answered by two workers and the assistant. *)
EXTENDS GoogleChatReply
=============================================================================

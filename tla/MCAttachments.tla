---------------------------- MODULE MCAttachments ----------------------------
(* A small instance of Attachments. *)
EXTENDS Attachments

=============================================================================

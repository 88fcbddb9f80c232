---------------------------- MODULE MCGmailWatch ----------------------------
(* Small instances of the Gmail watch consumer for TLC.                    *)
EXTENDS GmailWatch, TLC

Symmetric == Permutations(Handlers)

=============================================================================

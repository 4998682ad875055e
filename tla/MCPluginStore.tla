--------------------------- MODULE MCPluginStore ----------------------------
(***************************************************************************)
(* Two contents of one version, by two publishers, and a second version.   *)
(***************************************************************************)
EXTENDS PluginStore, TLC

CONSTANTS one, other, later, v1, v2, author, stranger

ContentVersion == one :> v1 @@ other :> v1 @@ later :> v2
ContentPublisher == one :> author @@ other :> stranger @@ later :> author
=============================================================================

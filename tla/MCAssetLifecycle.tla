--------------------------- MODULE MCAssetLifecycle ---------------------------
(* One old file that connections share or nobody uses, and one new upload,  *)
(* two connections, two workers of which one may crash.                     *)
EXTENDS AssetLifecycle

MCUploadedBy == [a \in Assets |-> "w1"]

=============================================================================

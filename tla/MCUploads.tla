------------------------------ MODULE MCUploads ------------------------------
EXTENDS Uploads, TLC
\* The first upload is the first account's; the other is anybody's.
AnyOther == {o \in [Uploads -> Accounts] : o[1] = 1}
=============================================================================

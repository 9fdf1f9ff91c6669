------------------------------ MODULE MCS3Bucket ------------------------------
(* S3Bucket over a directory with a file in it, and a place beside it.        *)
EXTENDS S3Bucket

MCKeys == {<<"d">>, <<"e">>, <<"d", "f">>}
===============================================================================

------------------------------- MODULE MCS3Path -------------------------------
(* S3Path over the paths of up to five characters of "/", "?", a and b,  *)
(* with and without a Host header.                                        *)
EXTENDS S3Path

MCChars == {"/", "?", "a", "b"}
MCHosts == {"", "h"}

====

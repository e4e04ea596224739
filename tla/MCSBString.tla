----------------------------- MODULE MCSBString -----------------------------
(* Model-checking instance of SBString: a four-character field, two      *)
(* characters, source buffers that are empty, short, exactly filling the  *)
(* field without terminator, and terminated early; receiver buffers of   *)
(* size 0 (the BAD_ARGUMENT path), 1, 3 and 5.                           *)
EXTENDS SBString

MCSrcStrings == { <<0, 1, 1, 1>>, <<1, 2, 0, 0>>, <<2, 1, 0, 2>>,
                  <<1, 2, 1, 2>>, <<2, 0, 1, 1>> }
MCDefault == <<2, 2, 0>>
=============================================================================

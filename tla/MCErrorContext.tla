--------------------------- MODULE MCErrorContext ---------------------------
(* Three statements: two with a location, and a Break whose token is at   *)
(* 0,0; nestings up to three deep; two kinds of detached errors; a call   *)
(* of a built-in failing with an I/O error, a general error or another    *)
(* NaslError.                                                              *)
EXTENDS ErrorContext, TLC

CONSTANTS sIf, sCall, sBreak, NoStmt

MCStatements == {sIf, sCall, sBreak}
MCPos == (sIf :> <<1, 1>>) @@ (sCall :> <<2, 5>>) @@ (sBreak :> <<0, 0>>)
MCDetachedTags == {"NotFound", "IOError"}
MCCallKinds == {"IOError", "GeneralError", "WrongArgument"}
=============================================================================

----------------------------- MODULE MCHciLayer -----------------------------
(***************************************************************************)
(* HciLayer for TLC: a command that is answered with a Command Complete    *)
(* and one that is answered with a Command Status.  Two commands may have  *)
(* the same opcode, so that answers could be confused.                     *)
(***************************************************************************)
EXTENDS HciLayer

MCOpCodes == {"READ_LOCAL_NAME", "CREATE_CONNECTION"}
MCStatusOps == {"CREATE_CONNECTION"}
MCDebugInfo == "CONTROLLER_DEBUG_INFO"
MCNone == "NONE"
MCOgf == [op \in MCOpCodes \cup {MCDebugInfo, MCNone} |->
            CASE op = "READ_LOCAL_NAME" -> 3
              [] op = "CREATE_CONNECTION" -> 1
              [] op = "CONTROLLER_DEBUG_INFO" -> 63
              [] op = "NONE" -> 0]
=============================================================================

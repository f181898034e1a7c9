---------------------------- MODULE MCAgentRun ----------------------------
(* Instance of AgentRun for TLC: one tool of each permission level.        *)
EXTENDS AgentRun, TLC

CONSTANTS safe, confirm1, confirm2, restricted, unlisted
CONSTANTS list, edit1, edit2, send, wipe, ghost

MCTools == {safe, confirm1, confirm2, restricted, unlisted}
MCPermission == safe :> "SAFE" @@ confirm1 :> "CONFIRM" @@ confirm2 :> "CONFIRM"
                @@ restricted :> "RESTRICTED" @@ unlisted :> "UNKNOWN"
MCContracted == {safe, confirm1}

\* edit1 and edit2 are one tool with two different arguments.
MCCalls == {list, edit1, edit2, send, wipe, ghost}
MCToolOf == list :> safe @@ edit1 :> confirm1 @@ edit2 :> confirm1
            @@ send :> confirm2 @@ wipe :> restricted @@ ghost :> unlisted

\* Turns with a repeated call, a repeated tool, an unknown and a restricted one.
MCRawTurns == {<<edit1, edit1, edit2>>, <<list, send>>, <<wipe, ghost>>}
MCPairTurn == {<<edit1, edit2>>}

MCApprovals == {{}, {confirm2, restricted}}
MCNoApprovals == {{}}
=============================================================================

------------------------ MODULE MC_TerminalSession ------------------------
(* Model-checking instance of TerminalSession: two or three logical names, *)
(* enough window and pane ids for every add to reach tmux.                 *)
EXTENDS TerminalSession, TLC

CONSTANTS a, b, c

MCNames == {a, b, c}
(* The name b starts with the name a, as "api-worker" starts with "api":   *)
(* once a's window is gone, tmux resolves "sess:a" to b's window.          *)
MCPrefixOf == {<<a, b>>}
=============================================================================

---------------------------- MODULE MCConsoleTabs ---------------------------
(* Two ordinary tabs, and the two views of a topic.                         *)
EXTENDS ConsoleTabs

MCViews == <<"messages", "config">>
=============================================================================

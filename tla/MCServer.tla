------------------------------ MODULE MCServer ------------------------------
(***************************************************************************)
(* Configurations around the limits of each option.                        *)
(***************************************************************************)
EXTENDS Server

CONSTANTS Intervals, Mins, Windows, Flags

Tried == [interval : Intervals, keepMin : Mins, keepWindow : Windows,
          maxAge : {-1}, db : BOOLEAN, cleanup : Flags, stats : Flags, web : Flags]
=============================================================================

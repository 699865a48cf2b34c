---------------------------- MODULE MC_EventIface ----------------------------
(* Model-checking instance of EventIface: two element channels, two        *)
(* listener structs sharing one descriptor slot, so that the second        *)
(* listener reuses the first one's descriptor after it is destroyed.       *)
EXTENDS EventIface

MC_Desc == {1}
=============================================================================

---------------------------- MODULE MCLuaDebug ----------------------------
(***************************************************************************)
(* LuaDebug for every stack of up to MaxHeight values.                     *)
(***************************************************************************)
EXTENDS LuaDebug

CONSTANT MaxHeight

SmallStacks == UNION {[1 .. h -> Kinds] : h \in 0 .. MaxHeight}
===========================================================================

------------------------- MODULE MCComponentLoader -------------------------
(* Five components: equal priorities, one below the default (lua_hook), one *)
(* for servers only, the two that hook the game in the middle.              *)
EXTENDS ComponentLoader
CONSTANTS splasher, luaHook, pointers, unpack, dedicated, t1, t2
MCRegistered == <<splasher, luaHook, unpack, dedicated, pointers>>
MCPriority == (splasher :> 0) @@ (luaHook :> -1) @@ (unpack :> 0) @@ (dedicated :> 0) @@ (pointers :> 5)
MCType == (splasher :> "any") @@ (luaHook :> "client") @@ (unpack :> "any") @@ (dedicated :> "server") @@ (pointers :> "any")
MCThreads == {t1, t2}
=============================================================================

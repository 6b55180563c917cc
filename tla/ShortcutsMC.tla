----------------------------- MODULE ShortcutsMC -----------------------------
(***************************************************************************)
(* Two clients; K is a letter, F another one that nothing binds, P the     *)
(* Pause key.  The sections: the default lock on Pause with a chord on K   *)
(* and a bare K a hand edit left; the same switched off; the chord moved   *)
(* to Pause with the lock on K, and a chord home.                          *)
(***************************************************************************)
EXTENDS Shortcuts

Does(action, to) == [action |-> action, to |-> to]
Bind(held_, key, does) == [mods |-> held_, key |-> key, does |-> does]

MCPlain == {"K", "F"}
MCBareSafe == {"P"}
MCModKeys == {"CTRL_L", "CTRL_R"}
MCMods == {"ctrl"}
MCModOf == [k \in MCModKeys |-> "ctrl"]
MCClients == {"a", "b"}
MCRing == <<"home", "a", "b">>

Usual == << Bind({}, "K", Does("home", "")), Bind({"ctrl"}, "K", Does("cycle", "")),
            Bind({}, "P", Does("lock", "")) >>
Moved == << Bind({"ctrl"}, "P", Does("switch", "a")), Bind({"ctrl"}, "K", Does("home", "")) >>
MCConfigs == { [enabled |-> TRUE, bindings |-> Usual], [enabled |-> FALSE, bindings |-> Usual],
               [enabled |-> TRUE, bindings |-> Moved] }

MCAnyCapture == BOOLEAN
MCTwoPaths == {TRUE}
MCOnePath == {FALSE}
=============================================================================

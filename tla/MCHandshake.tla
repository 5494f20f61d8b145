---------------------------- MODULE MCHandshake ----------------------------
(***************************************************************************)
(* Handshake for TLC: backends with and without PLUGIN_AUTH, that announce *)
(* the account's plugin or another, or are full; clients with every        *)
(* combination of optional fields, and one from before 4.1.                *)
(***************************************************************************)
EXTENDS Handshake

Some(k) == [i \in 1..20 |-> 20 * k + i]

\* One challenge has null bytes in both parts.
TheChallenges == {Some(1), Some(2), [i \in 1..20 |-> IF i \in {3, 12} THEN 0 ELSE 60 + i]}

ThePasswords == {0, 1, 2}

TheToken(p, s) == [i \in 1..20 |-> (s[1 + ((i - 1) % Len(s))] + 7 * p) % 256]

OtherPlugin == <<41, 42>>
Always == 1 + 512 + 8192 + SECURE_CONNECTION

TheBackends ==
  {b \in [flags : {Always, Always + PLUGIN_AUTH}, plugin : {NATIVE_PASSWORD, OtherPlugin},
          account : {NATIVE_PASSWORD, OtherPlugin}, salt : {Some(1)}, switch_salt : {Some(2)},
          user : {<<11>>}, password : {0, 1}, configured : {0, 1, 2}, full : BOOLEAN] :
     Has(b.flags, PLUGIN_AUTH) \/ {b.plugin, b.account} = {NATIVE_PASSWORD}}

TheClients ==
  [flags : {Always + d + p + l : d \in {0, CONNECT_WITH_DB}, p \in {0, PLUGIN_AUTH},
                                 l \in {0, PLUGIN_AUTH_LENENC}},
   user : {<<11>>, << >>}, db : {<<21, 22>>, << >>}, password : ThePasswords,
   plugin : {NATIVE_PASSWORD}, old : BOOLEAN]
=============================================================================

---------------------------- MODULE MCConsoles ----------------------------
EXTENDS Consoles

\* PortalTables: the first row is tenant 1's, the id of the second is not given yet.
MCRow   == 1..2
MCOwned == <<1, 0>>

\* DataTable: three rows, two columns that order them differently, one with a tie.
MCId      == 1..3
MCColumn  == {"name", "date"}
MCRank    == [name |-> <<1, 2, 3>>, date |-> <<2, 1, 2>>]
MCQuery   == {"a"}
MCMatches == [a |-> {2, 3}]

\* Broadcasting: a name and a longer one, a device on each kind of subscription.
MCChannel  == {<<1>>, <<1, 2>>}
MCDevice   == {"exact", "pattern"}
MCPatterns == [exact   |-> {[name |-> <<1>>, star |-> FALSE]},
               pattern |-> {[name |-> <<1>>, star |-> TRUE]}]
MCTemplate == {[size |-> 1, vars |-> 0], [size |-> 2, vars |-> 1]}

\* Workspace: tenant 1 signs in, tenant 2 signs up; only the second has a secret.
MCFilledFor   == [login |-> 1, signup |-> 2, register |-> 1]
MCFirstSecret == <<0, 1>>

MCInstance == 1..2
MCTenant   == 1..2

MCWindows == {1, 2}
MCSmall == {2}
MCStep  == {"keys"}
=============================================================================

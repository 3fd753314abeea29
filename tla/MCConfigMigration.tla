-------------------------- MODULE MCConfigMigration --------------------------
(* Instances of ConfigMigration for TLC. *)
EXTENDS ConfigMigration, TLC

CONSTANTS m1, m2, v1, c1, a0, a1, u1, u2, s1

Fresh == [ obsolete |-> {}, current |-> {}, inline |-> FALSE,
           maps |-> [m \in MapId |-> NoMap],
           versions |-> NoRows, statics |-> NoRows, temp |-> NoRows,
           legacyAPI |-> NoURL, apis |-> [a \in ApiId |-> NoURL],
           dsn |-> NoSettings, host |-> NoSettings ]

\* The schema before GORM, with its one API, a map and a DSN.
Legacy == [Fresh EXCEPT !.obsolete = Obsolete, !.inline = TRUE,
                        !.maps[m1] = Unassigned,
                        !.versions[m1] = {v1}, !.statics[m1] = {c1},
                        !.legacyAPI = u1, !.dsn = s1]

\* The same with a DSN that cannot be split, and with no API to move.
Unsplit == [Legacy EXCEPT !.dsn = Unreadable]
NoOldAPI == [Legacy EXCEPT !.legacyAPI = NoURL]

\* An API already has the id the old one is to get.
Taken == [Legacy EXCEPT !.apis[a0] = u2]

MCFirstDisks == {Fresh, Legacy, Unsplit, NoOldAPI, Taken}
=============================================================================

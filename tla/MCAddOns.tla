------------------------------ MODULE MCAddOns ------------------------------
(* Small instances of the components of AddOns. *)
EXTENDS AddOns

\* the names of the files: report, REPORT, report (2)
Report(upper, numbers) == [stem |-> "report", upper |-> upper, nums |-> numbers]

MCUpdates ==
  [Records |-> 1..4, Hidden |-> {1}, Denied |-> {2}, Refusing |-> {3}, Fields |-> {"f", "g"},
   Required |-> {"g"}, Values |-> {"x"}, Empty |-> "", Dialog |-> 0, MaxRecords |-> 3,
   Requests |-> {"a", "b"}, MaxEdits |-> 1]

MCTagging ==
  [Records |-> 1..3, Denied |-> {3}, Refusing |-> {2}, Names |-> {"x", "y"}, Runs |-> {"a"},
   MaxTags |-> 4, MaxEdits |-> 1]

MCOwners ==
  [Records |-> 1..3, Hidden |-> {}, Denied |-> {2}, Refusing |-> {3}, Users |-> {"u", "v"},
   Nobody |-> "", MaxRecords |-> 2, MaxEdits |-> 1]

MCBlacklist ==
  [Entries |-> {"a", "A", "b", "?"}, Addresses |-> {"a", "b"}, Invalid |-> "",
   Normal |-> [a |-> "a", A |-> "a", b |-> "b"] @@ ("?" :> ""), Limit |-> 3, MaxEntries |-> 4,
   MaxEdits |-> 2]

MCVisibility ==
  [Menus |-> 1..3, Root |-> 0, Parent |-> <<0, 1, 2>>, Folders |-> {1, 2}, Openable |-> {3},
   Groups |-> {"g", "h"}, Held |-> {"g"}, Refusing |-> {2}, Workers |-> {"v", "w"},
   Nothing |-> {0}, MaxEdits |-> 2]

MCMail ==
  [Mails |-> {1, 2}, Checks |-> {"cron", "hand"}, Thresholds |-> {0, 2}, Age |-> 0,
   RealertHours |-> 2, MaxTime |-> 2, MaxEdits |-> 1]

MCOverdue ==
  [Crons |-> {1}, Exempt |-> {}, Pages |-> {"p", "q"}, Watchdog |-> "w", Lag |-> 1,
   RealertHours |-> 1, WebCheckEvery |-> 0, Interval |-> 1, MaxTime |-> 3]

MCAudit ==
  [Keys |-> {"enabled", "days", "patterns", "token"}, Values |-> {"0", "1"},
   EnabledKey |-> "enabled", RetentionKey |-> "days", PatternsKey |-> "patterns", Off |-> {"0"},
   Days |-> ("0" :> 0) @@ ("1" :> 1), Matched |-> ("0" :> {}) @@ ("1" :> {"token", "patterns"}),
   DefaultDays |-> 1, DefaultMatched |-> {"token"}, Present |-> {"enabled"},
   Changers |-> {"a", "b"}, Ceiling |-> 1, MaxTime |-> 2, MaxEdits |-> 2]

MCPermissions ==
  [Users |-> {"u", "v"}, Groups |-> {"i", "p", "s", "m"},
   Implied |-> {<<"m", "s">>, <<"s", "i">>}, Types |-> {"i", "p"}, Protected |-> {"v"},
   Models |-> 1..2, Ops |-> {"r", "w"}, Public |-> {}, Limit |-> 1, MaxEdits |-> 2,
   Access |-> [i |-> {<<1, "r">>}, p |-> {}, s |-> {<<2, "r">>}, m |-> {<<1, "w">>, <<2, "w">>}]]

MCRuleTests ==
  [Records |-> 1..4, Rules |-> {"a", "b"}, Users |-> {"u", "o"}, Groups |-> {"g"},
   Ops |-> {"read", "write", "create"}, Operator |-> "o", Outside |-> {4}, Limits |-> {2},
   MaxEdits |-> 1,
   Kinds |->
     [groups : {{}, {"g"}}, ops : {{"read"}, {"read", "write", "create"}},
      matches : {{1}, {1, 2, 3, 4}}, broken : {FALSE}]
     \cup [groups : {{"g"}}, ops : {{"read"}}, matches : {{2}}, broken : BOOLEAN]]

MCRestraints ==
  [Fields |-> {"f"}, Groups |-> {"g"}, Users |-> {"u", "a", "su"},
   Held |-> [u |-> {"g"}, a |-> {}, su |-> {"g"}], Admins |-> {"a"}, Superusers |-> {"su"},
   RuleIds |-> 1..2, Workers |-> {"v", "w"}, NoCache |-> {[none |-> TRUE]},
   NoRule |-> [none |-> TRUE], MaxEdits |-> 1,
   Contents |->
     [field : {"f"}, groups : {{"g"}}, apply_to_admin : {FALSE}, active : {TRUE},
      flags : {{"readonly"}, {"required"}, {"invisible"}}]
     \cup [field : {"f"}, groups : {{}}, apply_to_admin : {TRUE}, active : BOOLEAN,
           flags : {{"readonly"}}]]

MCPasswords ==
  [Users |-> {"u", "v"}, Spared |-> {}, Unstamped |-> {"v"}, NoStamp |-> -1,
   Periods |-> {-9, 0, 3, 9}, NoPeriod |-> -9, MinDays |-> 2, MaxDays |-> 4, DefaultDays |-> 3,
   MaxTime |-> 5, MaxEdits |-> 1]

MCOffers ==
  [Filters |-> 1..2, Actions |-> {"a"}, AnyAction |-> "", Users |-> {"u", "v"}, Nobody |-> "",
   Choosing |-> {<<"v", "a">>}, Requests |-> 1..2, MaxEdits |-> 3]

MCLabels ==
  [Fields |-> {"f"}, Langs |-> {"en", "fr"}, Texts |-> {"x", "y", "z"}, None |-> "",
   Translated |-> {"f"}, MaxEdits |-> 3]

MCSwitch ==
  [Records |-> 1..3, Crons |-> {3}, Saves |-> {1, 2}, MaxEdits |-> 3]

MCHistory ==
  [Actions |-> {"a", "b"}, Runs |-> 1..2, Retentions |-> {0, 1}, BatchLimit |-> 1,
   MaxBatches |-> 2, MaxTime |-> 2, MaxEdits |-> 1]

MCArchives ==
  [Records |-> {1, 2, 3}, Protected |-> {3}, Stubborn |-> {2}, Rules |-> <<"hasty", "patient">>,
   Filter |-> [hasty |-> {1, 2, 3}, patient |-> {1, 3}],
   Inactivity |-> [hasty |-> 0, patient |-> 1], Floor |-> 1, BatchLimit |-> 2,
   Reasons |-> {"stale"}, NoteMode |-> [stale |-> "required"], NoReason |-> "none",
   MaxRecords |-> 2, Runners |-> {"cron", "button"}, Cron |-> "cron", MaxDay |-> 2,
   MaxEdits |-> 2]

MCDuplicates ==
  [Attachments |-> 1..4, File |-> <<"f", "f", "f", "g">>, InScope |-> 1..4, Deletable |-> 1..3,
   Places |-> {"p", "q"}, Scans |-> {"here", "everywhere"},
   Scope |-> [here |-> "record", everywhere |-> "global"], MaxEdits |-> 2]

MCLeftovers ==
  [Attachments |-> {1, 2}, Records |-> {"r", "q"}, Assets |-> {"view"}, Nowhere |-> "nowhere",
   Pending |-> "pending", MaxEdits |-> 3]

MCLinks ==
  [Attachments |-> 1..4, Files |-> {"f", "g"}, Elsewhere |-> {"db"}, Hidden |-> {2},
   FieldRows |-> {4}, Deletable |-> {1, 3}, BatchSize |-> 2, Stops |-> {0, 2}, MaxLines |-> 2,
   CacheMax |-> 1, MaxEdits |-> 1]

MCDownloads ==
  [Users |-> {"ann", "bob"}, Records |-> {1, 2}, Attachments |-> 1..4, Of |-> <<1, 1, 2, 2>>,
   Folder |-> <<"invoice", "invoice">>,
   Name |-> <<Report(FALSE, <<>>), Report(FALSE, <<2>>), Report(TRUE, <<>>), Report(FALSE, <<>>)>>,
   Recorded |-> <<1, 1, 1, 1>>, Real |-> <<1, 1, 2, 0>>, Limits |-> {0, 3}, MaxRecords |-> 2,
   MaxEdits |-> 2]

MCFinder ==
  [Contacts |-> 1..4, Hidden |-> {}, Criteria |-> 1..2, Keys |-> 1..2, Caps |-> 1..2,
   MaxMembers |-> 3, MaxEdits |-> 1,
   Starts |-> {keys \in [1..4 -> [1..2 -> {{1}, {2}}]] :
                 keys[1] = <<{1}, {1}>> /\ keys[2][1] = {1}}]

MCIdentifiers ==
  [Entries |-> 1..2, Models |-> {1, 2}, NoModel |-> 0, Searchable |-> {1, 2}, Readable |-> {1},
   Ids |-> 1..2, Name |-> <<<<"x", "x">>, <<"x", "y">>>>, ModelLimit |-> 1, HitLimit |-> 1,
   MaxEdits |-> 2]

MCDefaults ==
  [Slots |-> 1..2, Fields |-> {"f", "g"}, Relational |-> {"f"},
   FieldModel |-> [f |-> "M", g |-> "N"], Comodel |-> [f |-> "N", g |-> "N"],
   Models |-> {"M", "N"}, Users |-> {}, Companies |-> {"c", "d"}, All |-> "", Targets |-> {1},
   Admins |-> {"a", "b"}, CompaniesOf |-> [a |-> {"c"}, b |-> {"c", "d"}], MaxEdits |-> 2]

MCExports ==
  [Txs |-> 1..2, Keys |-> {"k"}, Sizes |-> {1}, MaxChunks |-> 2, MaxOpen |-> 1,
   Settings |-> {-1, 0}, DefaultDays |-> 1, MaxTime |-> 2, MaxEdits |-> 1]

MCNumbering ==
  [Documents |-> 1..4, NoNumber |-> [prefix |-> 0], NoDocument |-> [none |-> TRUE],
   Values |-> [prefix : {1}, number : {1, 3, 5}, width : {1}]
              \cup [prefix : {2}, number : {1}, width : {2}],
   Unreadable |-> {}, Caps |-> {2}, AbsoluteMaxGaps |-> 1, AbsoluteMaxRows |-> 3,
   MaxGapSpan |-> 2, Int4Max |-> 5, MaxEdits |-> 1]
=============================================================================

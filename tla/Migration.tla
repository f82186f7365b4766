-------------------------------- MODULE Migration --------------------------------
(* How a database of an older version becomes one of this version               *)
(* (migrate_database in focus-core/src/db.rs), and what policy a start then      *)
(* reads from it (has_policy_config, load_policy_config, Config::validate).      *)
(*                                                                               *)
(* Every statement commits by itself, so that a crash may come between any two;  *)
(* the recovery lock keeps other openers out.  Four tables of the policy are     *)
(* rebuilt to widen a CHECK, by copying to a table that is then renamed, or by   *)
(* renaming the old one away first.                                              *)
(*                                                                               *)
(* A table holds what a policy has there, "plain" or "newer" with a value that   *)
(* only the wider CHECK takes; a list of websites is shown with the columns that *)
(* normalization and validation read.  What is left in a table that was renamed  *)
(* away is never read again.                                                     *)
EXTENDS Naturals, Sequences, FiniteSets, Absent

CONSTANTS
    Grants,         \* unlocks of the list of websites
    MaxKills,       \* bound: crashes
    MaxPolicyEdits  \* bound: edits of the policy

VARIABLES
    tables,     \* the tables of the policy and those of their rebuilding
    targets,    \* unlock_rule_targets: what it holds of each grant
    columns,    \* whether that table, and each table of lists, has its newer column
    statement,  \* the next statement of the start, 0 when nothing runs
    policy,     \* the policy the daemon runs with
    expected,   \* ghost: the policy as it was stored
    struck,     \* ghost: the tables a crash found half rebuilt
    tally       \* crashes and edits so far

migrationVars == <<tables, targets, columns, statement, policy, expected, struck, tally>>

Contents == {"allowances", "windows", "patterns", "apps"}
PolicyTables == Contents \cup {"sites"}
Temporary == {"allowances_new", "windows_old", "patterns_old", "sites_new", "apps_new"}

Site == [tier : {"hard", "scheduled_block", "controlled_access"}, enabled : BOOLEAN,
         mode : {"blocklist", "allowlist"}, linked : BOOLEAN]

\* What the rows of a table say; None is neither a table nor a policy.
Entries(t) == IF t \in {"sites", "sites_new"} THEN Site ELSE {"plain", "newer"}

ASSUME MigrationAssumption ==
    /\ MaxKills \in Nat /\ MaxPolicyEdits \in Nat
    /\ \A t \in PolicyTables \cup Temporary : None \notin [wide : BOOLEAN, rows : SUBSET Entries(t)]
    /\ None \notin [PolicyTables -> (SUBSET Site) \cup SUBSET {"plain", "newer"}]

NewTable == [wide |-> TRUE, rows |-> {}]

\* The CHECKs of a table as older versions made it.
Fits(table, rows) == IF table = "sites" THEN \A site \in rows : site.tier # "scheduled_block"
                     ELSE "newer" \notin rows

-----------------------------------------------------------------------------
(* The statements                                                              *)

OnlyIf(names, length) == [op |-> "check", of |-> names, to |-> length]
Statement(op, table, to) == [op |-> op, of |-> table, to |-> to]
Create(table) == Statement("create", table, table)
Copy(table, to) == Statement("copy", table, to)
Drop(table) == Statement("drop", table, table)
Rename(table, to) == Statement("rename", table, to)
Single(op) == Statement(op, None, None)

\* migrate_database, with the four migrations it calls written out.
Program ==
    << Single("ensure"),
       \* migrate_policy_allowances_zero_minutes
       OnlyIf({"allowances"}, 4),
       Create("allowances_new"), Copy("allowances", "allowances_new"),
       Drop("allowances"), Rename("allowances_new", "allowances"),
       \* migrate_policy_schedule_windows_day_groups
       OnlyIf({"windows"}, 4),
       Rename("windows", "windows_old"), Create("windows"), Copy("windows_old", "windows"),
       Drop("windows_old"),
       \* migrate_policy_site_list_patterns_url_contains
       OnlyIf({"patterns"}, 4),
       Rename("patterns", "patterns_old"), Create("patterns"), Copy("patterns_old", "patterns"),
       Drop("patterns_old"),
       \* migrate_policy_rule_tiers
       OnlyIf({"sites", "apps"}, 8),
       Create("sites_new"), Copy("sites", "sites_new"), Drop("sites"), Rename("sites_new", "sites"),
       Create("apps_new"), Copy("apps", "apps_new"), Drop("apps"), Rename("apps_new", "apps"),
       Single("revoked"), Single("backfill"),
       Statement("mode", "sites", "sites"), Statement("mode", "apps", "apps"),
       Single("enable"), Single("lift"), Single("unlink"), Single("load") >>

Started == Len(Program) + 1

Is(op) == statement \in 1 .. Len(Program) /\ Program[statement].op = op
Now == Program[statement]

NextStatement == statement' = statement + 1

-----------------------------------------------------------------------------
(* Databases as older versions left them.  A list that older versions let be     *)
(* an allowlist of Tier 1, or one that is off, is among them.                    *)

OlderSite(site, wide, hasMode) ==
    /\ ~wide => site.tier # "scheduled_block" /\ ~hasMode
    /\ ~hasMode => site.mode = "blocklist"
    /\ site.linked => site.tier = "controlled_access" \/ site.mode = "allowlist"

MigrationInit ==
    /\ \E wide \in [Contents -> BOOLEAN], site \in Site, hasMode \in BOOLEAN :
          /\ OlderSite(site, wide["apps"], hasMode)
          /\ expected = [t \in PolicyTables |->
                IF t = "sites" THEN {site} ELSE IF wide[t] THEN {"newer"} ELSE {"plain"}]
          /\ tables = [t \in PolicyTables \cup Temporary |->
                CASE t \in Temporary -> None
                  [] t = "sites"     -> [wide |-> wide["apps"], rows |-> expected[t]]
                  [] OTHER           -> [wide |-> wide[t], rows |-> expected[t]]]
          /\ columns \in [{"sites", "apps", "targets"} -> BOOLEAN]
          /\ columns["sites"] = hasMode /\ columns["apps"] = hasMode
    /\ targets \in [Grants -> {"none", "granted", "revoked"}]
    /\ ~columns["targets"] => \A g \in Grants : targets[g] # "revoked"
    /\ statement = 0 /\ policy = None /\ struck = {}
    /\ tally = [crashes |-> 0, edits |-> 0]

Rest == UNCHANGED <<targets, columns, policy, expected, struck, tally>>

\* A statement that fails ends the start; systemd begins another.
GiveUpStart == statement' = 0 /\ UNCHANGED tables /\ Rest

Begin ==
    /\ statement = 0 /\ statement' = 1
    /\ UNCHANGED tables /\ Rest

\* CREATE TABLE IF NOT EXISTS, of every table in its newest form.
Ensure ==
    /\ Is("ensure") /\ NextStatement
    /\ tables' = [t \in DOMAIN tables |->
          IF t \in PolicyTables /\ tables[t] = None THEN NewTable ELSE tables[t]]
    /\ columns' = [t \in DOMAIN columns |->
          columns[t] \/ (t \in PolicyTables /\ tables[t] = None)]
    /\ UNCHANGED <<targets, policy, expected, struck, tally>>

\* migrate_policy_*, the look at sqlite_master
CheckShape ==
    /\ Is("check")
    /\ statement' = IF \A t \in Now.of : tables[t].wide THEN statement + 1 + Now.to
                    ELSE statement + 1
    /\ UNCHANGED tables /\ Rest

CreateTable ==
    /\ Is("create")
    /\ IF tables[Now.of] # None THEN GiveUpStart
       ELSE tables' = [tables EXCEPT ![Now.of] = NewTable] /\ NextStatement /\ Rest

CopyRows ==
    /\ Is("copy") /\ NextStatement
    /\ tables' = [tables EXCEPT ![Now.to].rows =
          @ \cup IF tables[Now.of] = None THEN {} ELSE tables[Now.of].rows]
    /\ Rest

DropTable ==
    /\ Is("drop") /\ NextStatement
    /\ tables' = [tables EXCEPT ![Now.of] = None]
    /\ Rest

\* A table that is rebuilt by copying loses its newer column.
RenameTable ==
    /\ Is("rename")
    /\ IF tables[Now.to] # None THEN GiveUpStart
       ELSE /\ tables' = [tables EXCEPT ![Now.to] = tables[Now.of], ![Now.of] = None]
            /\ columns' = IF Now.to \in DOMAIN columns THEN [columns EXCEPT ![Now.to] = FALSE]
                          ELSE columns
            /\ NextStatement
            /\ UNCHANGED <<targets, policy, expected, struck, tally>>

AddRevoked ==
    /\ Is("revoked") /\ NextStatement
    /\ columns' = [columns EXCEPT !["targets"] = TRUE]
    /\ UNCHANGED <<tables, targets, policy, expected, struck, tally>>

\* Slip: a grant whose targets were all revoked is filled in again.
Backfill_NoneLeft ==
    /\ Is("backfill") /\ NextStatement
    /\ targets' = [g \in Grants |-> "granted"]
    /\ UNCHANGED <<tables, columns, policy, expected, struck, tally>>

Backfill ==
    /\ Is("backfill") /\ NextStatement
    /\ targets' = [g \in Grants |-> IF targets[g] = "none" THEN "granted" ELSE targets[g]]
    /\ UNCHANGED <<tables, columns, policy, expected, struck, tally>>

AddMode ==
    /\ Is("mode") /\ NextStatement
    /\ columns' = [columns EXCEPT ![Now.of] = TRUE]
    /\ UNCHANGED <<tables, targets, policy, expected, struck, tally>>

-----------------------------------------------------------------------------
(* normalize_policy_website_allowlists: three updates                          *)

Enabled(site) == IF site.mode = "allowlist" THEN [site EXCEPT !.enabled = TRUE] ELSE site

Lifted(site) ==
    IF site.mode = "allowlist" /\ site.tier = "hard"
    THEN [site EXCEPT !.tier = "scheduled_block", !.linked = FALSE] ELSE site

Unlinked(site) ==
    IF site.mode = "allowlist" /\ site.tier = "scheduled_block"
    THEN [site EXCEPT !.linked = FALSE] ELSE site

Updated(op, site) ==
    CASE op = "enable" -> Enabled(site)
      [] op = "lift" -> Lifted(site)
      [] op = "unlink" -> Unlinked(site)

Updates(op) ==
    /\ Is(op) /\ NextStatement
    /\ tables' = [tables EXCEPT !["sites"].rows = {Updated(op, site) : site \in @}]
    /\ Rest

Normalize == Updates("enable") \/ Updates("lift") \/ Updates("unlink")

-----------------------------------------------------------------------------
(* The policy that is read                                                     *)

Stored == [t \in PolicyTables |-> tables[t].rows]

\* Config::validate, of what the tables hold.
Valid(stored) ==
    \A site \in stored["sites"] :
       /\ stored["patterns"] # {}
       /\ site.linked => stored["allowances"] # {} /\ site.tier = "controlled_access"
       /\ site.mode = "allowlist" => site.tier # "hard" /\ site.enabled

\* Slip: what cannot be used is served.
Load_Unvalidated ==
    /\ Is("load")
    /\ policy' = Stored /\ NextStatement
    /\ UNCHANGED <<tables, targets, columns, expected, struck, tally>>

Load ==
    /\ Is("load")
    /\ IF ~Valid(Stored) THEN GiveUpStart
       ELSE /\ policy' = Stored /\ NextStatement
            /\ UNCHANGED <<tables, targets, columns, expected, struck, tally>>

\* replace_policy_config, which revokes the grants of lists that are gone.
Replacements ==
    {[t \in PolicyTables |-> IF t = "sites" THEN sites ELSE {"newer"}] :
        sites \in {{}, {[tier |-> "controlled_access", enabled |-> TRUE,
                         mode |-> "allowlist", linked |-> TRUE]}}}

Replace ==
    /\ statement = Started /\ tally.edits < MaxPolicyEdits
    /\ \E new \in Replacements :
          /\ \A t \in PolicyTables : tables[t].wide \/ Fits(t, new[t])
          /\ tables' = [t \in DOMAIN tables |->
                IF t \in PolicyTables THEN [tables[t] EXCEPT !.rows = new[t]] ELSE tables[t]]
          /\ policy' = new /\ expected' = new
          /\ targets' = [g \in Grants |->
                IF targets[g] = "granted" /\ new["sites"] = {} THEN "revoked" ELSE targets[g]]
    /\ tally' = [tally EXCEPT !.edits = @ + 1]
    /\ struck' = {}
    /\ UNCHANGED <<columns, statement>>

\* The tables whose rows only a table has that no start looks at again.
HalfRebuilt ==
    {t \in {"windows"} : tables["windows_old"] # None
                         /\ (tables[t] = None \/ tables[t].rows = {})}
    \cup {t \in {"apps"} : tables[t] = None}

Stop ==
    /\ statement # 0 /\ statement' = 0 /\ policy' = None
    /\ \/ statement = Started /\ UNCHANGED <<struck, tally>>
       \/ /\ statement \in 1 .. Len(Program) /\ tally.crashes < MaxKills
          /\ tally' = [tally EXCEPT !.crashes = @ + 1]
          /\ struck' = struck \cup HalfRebuilt
    /\ UNCHANGED <<tables, targets, columns, expected>>

MigrationNext ==
    \/ Begin \/ Ensure \/ CheckShape \/ CreateTable \/ CopyRows \/ DropTable \/ RenameTable
    \/ AddRevoked \/ Backfill \/ AddMode \/ Normalize \/ Load \/ Replace \/ Stop

MigrationSpec == MigrationInit /\ [][MigrationNext]_migrationVars

-----------------------------------------------------------------------------
\* Every variable stays in its domain, and what a table holds passes its CHECKs.
MigrationTypeOK ==
    /\ \A t \in DOMAIN tables :
          \/ tables[t] = None
          \/ /\ tables[t].wide \in BOOLEAN
             /\ tables[t].wide \/ Fits(t, tables[t].rows)
    /\ DOMAIN tables = PolicyTables \cup Temporary
    /\ targets \in [Grants -> {"none", "granted", "revoked"}]
    /\ columns \in [{"sites", "apps", "targets"} -> BOOLEAN]
    /\ statement \in 0 .. Started
    /\ (statement = Started) <=> (policy # None)
    /\ struck \subseteq PolicyTables

\* What decides anything: an allowance that no list uses does not.
Decisive(stored) ==
    [stored EXCEPT !["allowances"] = IF \E site \in stored["sites"] : site.linked THEN @ ELSE {}]

AsNormalized(stored) ==
    [stored EXCEPT !["sites"] = {Unlinked(Lifted(Enabled(site))) : site \in @}]

Unchanged == Decisive(policy) = Decisive(AsNormalized(expected))

\* A daemon that serves does so with the policy that was stored, its allowlists
\* made ones of Tier 2 or 3 that are on: an upgrade that a crash interrupts goes
\* on at the next start or leaves the daemon refusing to start, but it is not a
\* start with less.  This leaves out the windows of the schedules and the rules
\* for applications if the crash came while their rows were in the other table.
WholeOrRefused ==
    (policy # None /\ struck = {}) => Unchanged

\* Without a crash the start after any older version succeeds, and leaves tables
\* that take all this version writes, with the columns it reads and nothing of
\* the rebuilding.
UndisturbedUpgrades ==
    tally.crashes = 0 =>
       /\ statement = Started =>
             /\ \A t \in PolicyTables : tables[t].wide
             /\ \A t \in Temporary : tables[t] = None
             /\ \A t \in DOMAIN columns : columns[t]
       /\ Is("load") => Valid(Stored)
       /\ Is("create") => tables[Now.of] = None

\* Types, and what a start makes of an older database: the whole policy, or none of it
\* after a crash.
MigrationInvariant == MigrationTypeOK /\ WholeOrRefused /\ UndisturbedUpgrades

\* db.rs:2509, "Backfill only grants with no targets, so reopening the database
\* cannot resurrect revoked targets": through edits, crashes and any number of
\* starts a grant whose list was removed stays revoked.
RevokedStaysRevoked ==
    [][\A g \in Grants : targets[g] = "revoked" => targets'[g] = "revoked"]_migrationVars

-----------------------------------------------------------------------------
\* Testing/layers/04-destructive-and-soak.md:141, "policy, modes, installation
\* identity, intended credentials, and services survive": an upgrade that a crash
\* interrupts does not make the daemon serve with less than was stored.
UpgradeKeepsPolicy == policy # None => Unchanged
==================================================================================

----------------------------- MODULE AppStartup -----------------------------
(***************************************************************************)
(* The application opens its database (AppRepository, index.ts): a backup  *)
(* before the first migration of an existing database, the migrations,     *)
(* each in a transaction, and the choice of a default model, which the     *)
(* Bots without a model are given.  It may die between any two commits,    *)
(* and the user may install another version in between, also an older one. *)
(*                                                                         *)
(* Left out: the recovery of sends, runs, batches and tool calls that      *)
(* follows the migrations (DirectRuntime, RoomRun, ToolApproval), and what *)
(* each migration does.  A copy that was never checked is no backup.       *)
(***************************************************************************)
EXTENDS Naturals

CONSTANTS
  Bot,
  Schemas,   \* bound: the migrations that any version has
  MaxData    \* bound: changes of the user's data

ASSUME StartupBounds == Schemas \in Nat \ {0} /\ MaxData \in Nat

Instances == {"codex", "claude", "other"}
NoModel == "none"
NoBot == "no bot"

VARIABLES
  target,      \* the last of MIGRATIONS in the installed version
  phase,       \* where the start is: "down", "backing up", "migrating", "scanning",
               \* "defaulting", or "open"
  tabled,      \* the database has the table schema_migrations
  schema,      \* the last migration in it
  content,     \* what the user wrote, as the number of its changes
  backups,     \* the schema and content of the backups that were checked and described
  defaultFor,  \* provider.defaultInstanceId, with its model, or NoModel
  modelOf,     \* the model of each Bot, or NoModel, or NoBot
  used         \* history: schema and content that the user last worked with

startupVars == <<target, phase, tabled, schema, content, backups, defaultFor, modelOf, used>>

Copies == [schema : 0..Schemas, content : 0..MaxData]
Here == [schema |-> schema, content |-> content]

StartupTypeOK ==
  /\ target \in 1..Schemas
  /\ phase \in {"down", "backing up", "migrating", "scanning", "defaulting", "open"}
  /\ tabled \in BOOLEAN
  /\ schema \in 0..Schemas /\ content \in 0..MaxData
  /\ backups \subseteq Copies
  /\ defaultFor \in Instances \cup {NoModel}
  /\ modelOf \in [Bot -> Instances \cup {NoModel, NoBot}]
  /\ used \in Copies

StartupInit ==
  /\ target = 1 /\ phase = "down"
  /\ tabled = FALSE /\ schema = 0 /\ content = 0 /\ backups = {}
  /\ defaultFor = NoModel /\ modelOf = [b \in Bot |-> NoBot]
  /\ used = Here

\* Mutant: a database is backed up once at each schema.
NeedsFirstBackup == tabled /\ schema < target /\ \A b \in backups : b.schema # schema

NeedsBackup == tabled /\ schema < target

\* the AppRepository's constructor, up to the first commit
OpenDatabase ==
  /\ phase = "down"
  /\ phase' = IF NeedsBackup THEN "backing up" ELSE "migrating"
  /\ tabled' = (tabled \/ ~NeedsBackup)
  /\ UNCHANGED <<target, schema, content, backups, defaultFor, modelOf, used>>

\* createMigrationBackup: the copy is checked, then described.
BackUp ==
  /\ phase = "backing up"
  /\ backups' = backups \cup {Here} /\ phase' = "migrating"
  /\ UNCHANGED <<target, tabled, schema, content, defaultFor, modelOf, used>>

\* Mutant: the loop over the migrations is one too long.
MigrateTooFar ==
  /\ phase = "migrating" /\ schema <= target
  /\ schema' = schema + 1
  /\ UNCHANGED <<target, phase, tabled, content, backups, defaultFor, modelOf, used>>

\* One migration and its row are one commit.
Migrate ==
  /\ phase = "migrating" /\ schema < target
  /\ schema' = schema + 1
  /\ UNCHANGED <<target, phase, tabled, content, backups, defaultFor, modelOf, used>>

\* every migration of this version is there; a later schema is taken as it is
MigrationsEnd ==
  /\ phase = "migrating" /\ schema >= target
  /\ phase' = "scanning"
  /\ UNCHANGED <<target, tabled, schema, content, backups, defaultFor, modelOf, used>>

\* A backup or a migration that throws, or a crash: the process ends.
StartFails ==
  /\ phase # "down"
  /\ phase' = "down"
  /\ UNCHANGED <<target, tabled, schema, content, backups, defaultFor, modelOf, used>>

\* which of the available instances initialize takes
Preferred(available) ==
  CHOOSE i \in available : /\ "codex" \in available => i = "codex"
                           /\ "codex" \notin available /\ "claude" \in available => i = "claude"

\* initialize, after its scan: setDefaultModelSelection, once and for all
ChooseDefault(available) ==
  /\ phase = "scanning"
  /\ IF defaultFor = NoModel /\ available # {}
       THEN defaultFor' = Preferred(available) /\ phase' = "defaulting" /\ UNCHANGED used
       ELSE phase' = "open" /\ used' = Here /\ UNCHANGED defaultFor
  /\ UNCHANGED <<target, tabled, schema, content, backups, modelOf>>

\* applyDefaultSelectionToUnconfiguredBots, in a commit of its own
ApplyDefault ==
  /\ phase = "defaulting"
  /\ modelOf' = [b \in Bot |-> IF modelOf[b] = NoModel THEN defaultFor ELSE modelOf[b]]
  /\ phase' = "open" /\ used' = Here
  /\ UNCHANGED <<target, tabled, schema, content, backups, defaultFor>>

createBot(b) ==
  /\ phase = "open" /\ modelOf[b] = NoBot
  /\ modelOf' = [modelOf EXCEPT ![b] = defaultFor]
  /\ UNCHANGED <<target, phase, tabled, schema, content, backups, defaultFor, used>>

\* the user picks a model, or changes anything else
PickModel(b, i) ==
  /\ phase = "open" /\ modelOf[b] # NoBot
  /\ modelOf' = [modelOf EXCEPT ![b] = i]
  /\ UNCHANGED <<target, phase, tabled, schema, content, backups, defaultFor, used>>

Write ==
  /\ phase = "open" /\ content < MaxData
  /\ content' = content + 1
  /\ used' = [schema |-> schema, content |-> content + 1]
  /\ UNCHANGED <<target, phase, tabled, schema, backups, defaultFor, modelOf>>

\* an update, or a version put there by hand
InstallVersion(version) ==
  /\ phase = "down" /\ version # target
  /\ target' = version
  /\ UNCHANGED <<phase, tabled, schema, content, backups, defaultFor, modelOf, used>>

StartupNext ==
  \/ OpenDatabase \/ BackUp \/ Migrate \/ MigrationsEnd \/ StartFails
  \/ \E available \in SUBSET Instances : ChooseDefault(available)
  \/ ApplyDefault
  \/ \E b \in Bot : createBot(b)
  \/ \E b \in Bot, i \in Instances : PickModel(b, i)
  \/ Write
  \/ \E version \in 1..Schemas : InstallVersion(version)

StartupSpec == StartupInit /\ [][StartupNext]_startupVars

----------------------------------------------------------------------------

\* No migration costs the user anything: what was last worked with is still the database, or
\* is a backup that was checked, whatever failed half way and whichever versions ran between.
BackupFirst == Here # used => used \in backups \/ used.schema = 0

(* A claim of the repository that the code does not keep. *)

\* initialize gives the Bots that have no model the default it chooses; a process that dies
\* between the two commits leaves them without one, and no later start makes up for it.
BotsGetDefault ==
  phase = "open" /\ defaultFor # NoModel => \A b \in Bot : modelOf[b] # NoModel
=============================================================================

--------------------------- MODULE ProviderService ---------------------------
(***************************************************************************)
(* One provider instance of provider-service.ts: its configuration, the    *)
(* runtime object that was made from it, what inspecting the command line  *)
(* tool found, and the description that is kept for prompts.  Runs make    *)
(* their provider through the runtime object of the moment.                *)
(*                                                                         *)
(* The five kinds of runtime object behave alike up to what they inspect;  *)
(* the compatible service has no inspection but a refresh of its catalog,  *)
(* and a key in place of a sign-in.  A runtime object outlives its         *)
(* replacement as long as a call awaits it.  dispose does nothing.         *)
(***************************************************************************)
EXTENDS Naturals

CONSTANTS
  MaxSaves,     \* bound: accepted saves
  MaxLookups    \* bound: list, scan, get and refresh calls

ASSUME ProviderBounds == MaxSaves \in Nat /\ MaxLookups \in Nat

VARIABLES
  setup,      \* provider_instances.version
  signedIn,   \* what an inspection of the tool would find now
  current,    \* the runtime object in instances: the configuration it was made from
  found,      \* each runtime object's inspection: "none", "usable" or "unusable"
  cached,     \* descriptions: the configuration it tells of, whether available; or 0
  lookup,     \* each call: the runtime object it holds, and what it awaits
  lookups,    \* how many calls there have been
  turn        \* a run: its row, and the configuration its provider was made from

providerVars == <<setup, signedIn, current, found, cached, lookup, lookups, turn>>

Setups == 1..MaxSaves + 1
NoLookup == [object |-> 0, step |-> "none", sees |-> FALSE]
NoDescription == [object |-> 0, available |-> FALSE]
NoTurn == [row |-> "none", made |-> 0]

ProviderTypeOK ==
  /\ setup \in Setups /\ current \in Setups /\ signedIn \in BOOLEAN
  /\ found \in [Setups -> {"none", "usable", "unusable"}]
  /\ cached \in [object : 0..MaxSaves + 1, available : BOOLEAN]
  /\ lookup \in [1..MaxLookups -> [object : 0..MaxSaves + 1, sees : BOOLEAN,
                                   step : {"none", "start", "inspect", "describe"}]]
  /\ lookups \in 0..MaxLookups
  /\ turn \in [row : {"none", "created", "dispatched"}, made : 0..MaxSaves + 1]

\* initialize has scanned, and the window is there
ProviderInit ==
  /\ setup = 1 /\ current = 1
  /\ signedIn \in BOOLEAN
  /\ found = [v \in Setups |-> IF v = 1 THEN IF signedIn THEN "usable" ELSE "unusable" ELSE "none"]
  /\ cached = [object |-> 1, available |-> signedIn]
  /\ lookup = [n \in 1..MaxLookups |-> NoLookup] /\ lookups = 0
  /\ turn = NoTurn

----------------------------------------------------------------------------

\* the user signs in to the tool or out of it, elsewhere
SignIn ==
  /\ signedIn' = ~signedIn
  /\ UNCHANGED <<setup, current, found, cached, lookup, lookups, turn>>

\* A call takes the runtime object of the moment.  scan and refresh always inspect; list
\* and get only when nothing is known yet.
Ask(object, step) ==
  /\ lookups < MaxLookups
  /\ lookups' = lookups + 1
  /\ lookup' = [lookup EXCEPT ![lookups + 1] = [NoLookup EXCEPT !.object = object, !.step = step]]

list ==
  /\ Ask(current, IF found[current] = "none" THEN "start" ELSE "describe")
  /\ UNCHANGED <<setup, signedIn, current, found, cached, turn>>

refresh ==
  /\ Ask(current, "start")
  /\ UNCHANGED <<setup, signedIn, current, found, cached, turn>>

Goes(n, step) == lookup' = [lookup EXCEPT ![n].step = step]

\* the tool answers, and inspect is told so later; it may also fail
Inspects(n) ==
  /\ lookup[n].step = "start"
  /\ lookup' = [lookup EXCEPT ![n].step = "inspect", ![n].sees = signedIn]
  /\ UNCHANGED <<setup, signedIn, current, found, cached, lookups, turn>>

Inspected(n) ==
  /\ lookup[n].step = "inspect"
  /\ Goes(n, "describe")
  /\ found' = [found EXCEPT ![lookup[n].object] = IF lookup[n].sees THEN "usable" ELSE "unusable"]
  /\ UNCHANGED <<setup, signedIn, current, cached, lookups, turn>>

describe(object) == [object |-> object, available |-> found[object] = "usable"]

Described(n) ==
  /\ lookup[n].step = "describe"
  /\ lookup' = [lookup EXCEPT ![n] = NoLookup]
  /\ cached' = describe(lookup[n].object)
  /\ UNCHANGED <<setup, signedIn, current, found, lookups, turn>>

----------------------------------------------------------------------------

hasActiveRuntimeForProvider == turn.row # "none"

\* Mutant: a save does not ask whether the provider is in use.
SaveAtAnyTime ==
  /\ setup <= MaxSaves
  /\ setup' = setup + 1
  /\ current' = setup + 1
  /\ found' = [found EXCEPT ![setup + 1] = "none"]
  /\ Ask(setup + 1, "start")
  /\ cached' = NoDescription
  /\ UNCHANGED <<signedIn, turn>>

\* saveCli, saveOpenAiCompatible: the new configuration, reloadOne, and then get.  The
\* handler refuses while a run uses the provider.
Save ==
  /\ setup <= MaxSaves /\ ~hasActiveRuntimeForProvider
  /\ setup' = setup + 1
  /\ current' = setup + 1
  /\ found' = [found EXCEPT ![setup + 1] = "none"]
  /\ Ask(setup + 1, "start")
  /\ cached' = NoDescription
  /\ UNCHANGED <<signedIn, turn>>

RunCreated ==
  /\ turn = NoTurn
  /\ turn' = [NoTurn EXCEPT !.row = "created"]
  /\ UNCHANGED <<setup, signedIn, current, found, cached, lookup, lookups>>

\* dispatch: createProvider refuses a tool that was not found signed in
RunDispatched ==
  /\ turn.row = "created"
  /\ turn' = IF found[current] = "usable" THEN [row |-> "dispatched", made |-> current]
             ELSE NoTurn
  /\ UNCHANGED <<setup, signedIn, current, found, cached, lookup, lookups>>

\* the run has ended, or was cancelled before it was dispatched
RunOver ==
  /\ turn # NoTurn
  /\ turn' = NoTurn
  /\ UNCHANGED <<setup, signedIn, current, found, cached, lookup, lookups>>

----------------------------------------------------------------------------

ProviderNext ==
  \/ SignIn \/ list \/ refresh \/ Save \/ RunCreated \/ RunDispatched \/ RunOver
  \/ \E n \in 1..MaxLookups : Inspects(n) \/ Inspected(n) \/ Described(n)

ProviderSpec == ProviderInit /\ [][ProviderNext]_providerVars

----------------------------------------------------------------------------

\* From its creation to its end a run finds the configuration of its provider as it was,
\* and the provider it was given is the configured one.
RunKeepsProvider ==
  [][turn.row # "none" /\ turn'.row # "none"
       => setup' = setup /\ (turn'.made # 0 => turn'.made = setup)]_providerVars

\* Claim not kept: once every call has ended, the description kept for the prompts tells of
\* the runtime object that runs would use.
CachedIsCurrent ==
  (\A n \in 1..MaxLookups : lookup[n] = NoLookup) => cached = describe(current)
=============================================================================

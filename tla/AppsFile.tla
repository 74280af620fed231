--------------------------------- MODULE AppsFile ---------------------------------
(***************************************************************************)
(* The applications: the file they are kept in, the editors of the web UI *)
(* that show and change it (getApps, saveApp, deleteApp of confighttp.cpp), *)
(* the list that is served from it, with the variables in their commands  *)
(* expanded (parse, parse_env_val, refresh of process.cpp), and the ids   *)
(* clients launch them by (calculate_app_id).  A hash is what is hashed.  *)
(***************************************************************************)
EXTENDS Integers, Sequences, FiniteSets, FiniteSetsExt, SequencesExt, Functions

CONSTANTS
  AppNames,   (* names of apps, texts of characters, in their order      *)
  FirstApps,  (* files to start from: sequences, in the order of names, of *)
              (* [key, name, cover, cmd]: key tells apps from each other *)
  Editors,    (* open pages of the web UI                                *)
  MaxEdits,   (* bound: changes made                                     *)
  Entries,    (* what is entered: [name, cover, cmd]                     *)
  ShortText(_),  (* the text of a small number                           *)
  EnvValue(_)  (* the value of a variable                                *)

ASSUME AppsFileAssumption == MaxEdits \in Nat /\ <<>> \notin Range(AppNames)

VARIABLES
  appsFile,   (* the apps in the file                                    *)
  servedApps,  (* _apps: the same with their ids                         *)
  coverThere,  (* external: the image file of covers can be used         *)
  pages,      (* editor -> the apps it was shown                         *)
  edits,      (* changes made                                            *)
  lastEdit,   (* history: [meant, lost, arrived, excused] if the last    *)
              (* step was a change: excused when the page was out of     *)
              (* date or the file was not written                        *)
  knownApps,  (* what a client was told                                  *)
  launchedAs  (* history: [meant, found, due] if the last step was a launch *)

appsVars == <<appsFile, servedApps, coverThere, pages, edits, lastEdit, knownApps, launchedAs>>

NoEdit == [meant |-> {}, lost |-> {}, arrived |-> TRUE, excused |-> FALSE]
NoLaunch == [meant |-> {}, found |-> {}, due |-> {}]

-----------------------------------------------------------------------------
(* parse_env_val(): where the bracket at i is closed, or 0.  Variants:    *)
(* the first closing bracket; what follows two dollars is looked at again. *)
Nesting(t, i, j) ==
  FoldLeft(LAMBDA n, c : IF c = "(" THEN n + 1 ELSE IF c = ")" THEN n - 1 ELSE n, 0,
           SubSeq(t, i, j))
FindMatchBug(t, i) == Min({j \in i .. Len(t) : t[j] = ")"} \cup {Len(t) + 1}) % (Len(t) + 1)
FindMatch(t, i) ==
  Min({j \in i .. Len(t) : Nesting(t, i, j) = 0} \cup {Len(t) + 1}) % (Len(t) + 1)
AfterDollarsBug(next) == next
AfterDollars(next) == next + 1
DollarFrom(t, i) == Min({j \in i .. Len(t) : t[j] = "$"} \cup {Len(t) + 1})
Expand(t) ==
  LET n == Len(t)
      From[pos \in 1 .. n + 2, search \in 1 .. n + 2] ==
        LET dollar == DollarFrom(t, search)
            next == dollar + 1
        IN  IF next > n THEN SubSeq(t, pos, n)
            ELSE IF t[next] = "$"
            THEN SubSeq(t, pos, next - 1) \o From[next + 1, AfterDollars(next)]
            ELSE IF t[next] # "(" THEN From[pos, next]
            ELSE IF FindMatch(t, next) = 0 THEN <<"thrown">>
            ELSE LET end == FindMatch(t, next)
                 IN  SubSeq(t, pos, dollar - 1) \o EnvValue(SubSeq(t, next + 1, end - 1))
                       \o From[end + 1, end]
  IN  From[1, 1]

-----------------------------------------------------------------------------
(* calculate_app_id(): the name, the image if it can be used; with the    *)
(* place in the list only when the id is taken.  Variants: always with    *)
(* it, never with it.                                                     *)
Hashed(app, there) == app.name \o (IF app.cover /\ there THEN <<"png">> ELSE <<>>)
IdBug(app, there, ids, i) == Hashed(app, there) \o ShortText(i - 1)
IdNeverBug(app, there, ids, i) == Hashed(app, there)
Id(app, there, ids, i) ==
  IF Hashed(app, there) \notin ids THEN Hashed(app, there)
  ELSE Hashed(app, there) \o ShortText(i - 1)

(* parse(): a command that cannot be read is an error, nothing is taken.  *)
ServedApp(list, app, i, there) ==
  Append(list, [key |-> app.key, name |-> app.name, cmd |-> Expand(app.cmd),
                image |-> app.cover /\ there,
                id |-> Id(app, there, {a.id : a \in Range(list)}, i)])
Served(apps, there) ==
  FoldLeft(LAMBDA list, app : ServedApp(list, app, Len(list) + 1, there), <<>>, apps)
Parses(apps) == \A app \in Range(apps) : "thrown" \notin Range(Expand(app.cmd))

(* refresh(): the list served stays what it was on an error.  Variant: it *)
(* is not read again.                                                     *)
RefreshedBug(apps) == servedApps
Refreshed(apps) == IF Parses(apps) THEN Served(apps, coverThere) ELSE servedApps

-----------------------------------------------------------------------------
(* std::sort: by name; apps of one name in any order.                     *)
SortsOf(apps) ==
  LET Named(name) == SelectSeq(apps, LAMBDA a : a.name = name)
      Orders(some) == {[i \in DOMAIN some |-> some[f[i]]] :
                         f \in {g \in [DOMAIN some -> DOMAIN some] : IsInjective(g)}}
  IN  FoldLeft(LAMBDA sorts, name : {s \o t : s \in sorts, t \in Orders(Named(name))},
               {<<>>}, AppNames)

(* getApps().                                                             *)
GetApps(e) ==
  /\ pages' = [pages EXCEPT ![e] = appsFile]
  /\ lastEdit' = NoEdit /\ launchedAs' = NoLaunch
  /\ UNCHANGED <<appsFile, servedApps, coverThere, edits, knownApps>>

(* write_file() and refresh(): a file that cannot be opened is left as it *)
(* is, and the editor told of success.                                    *)
Written(apps, ok) ==
  /\ edits < MaxEdits /\ edits' = edits + 1
  /\ appsFile' = IF ok THEN apps ELSE appsFile
  /\ servedApps' = Refreshed(appsFile')
  /\ launchedAs' = NoLaunch
  /\ UNCHANGED <<coverThere, pages, knownApps>>

(* saveApp(): a new app is added, or the one at the index is replaced; an *)
(* index out of range changes nothing.  Variant: the one after it.        *)
ReplacedAppBug(apps, index, app) ==
  [i \in DOMAIN apps |-> IF i = index + 1 THEN app ELSE apps[i]]
ReplacedApp(apps, index, app) ==
  [i \in DOMAIN apps |-> IF i = index THEN app ELSE apps[i]]
KeysLost == {a.key : a \in Range(appsFile) \ Range(appsFile')}
AddApp(app, ok) ==
  /\ \E apps \in SortsOf(Append(appsFile, app)) : Written(apps, ok)
  /\ lastEdit' = [meant |-> {app.key}, lost |-> KeysLost, excused |-> ~ok,
                  arrived |-> app \in Range(appsFile')]
ChangeApp(e, index, app, ok) ==
  /\ \E apps \in SortsOf(ReplacedApp(appsFile, index, app)) : Written(apps, ok)
  /\ lastEdit' = [meant |-> {app.key}, lost |-> KeysLost,
                  arrived |-> app \in Range(appsFile'), excused |-> ~ok \/ pages[e] # appsFile]

(* deleteApp().  Variant: an app too many.                                *)
WithoutBug(apps, index) == SubSeq(apps, 1, index - 1) \o SubSeq(apps, index + 2, Len(apps))
Without(apps, index) == SubSeq(apps, 1, index - 1) \o SubSeq(apps, index + 1, Len(apps))
DeleteApp(e, index, ok) ==
  /\ index \in DOMAIN appsFile /\ Written(Without(appsFile, index), ok)
  /\ lastEdit' = [meant |-> {pages[e][index].key}, lost |-> KeysLost,
                  arrived |-> TRUE, excused |-> ~ok \/ pages[e] # appsFile]

-----------------------------------------------------------------------------
(* A client is told the apps; execute(): it launches one by its id, the   *)
(* first app that has it.  Due is the app it then knows to be there.      *)
TellApps ==
  /\ knownApps' = servedApps
  /\ lastEdit' = NoEdit /\ launchedAs' = NoLaunch
  /\ UNCHANGED <<appsFile, servedApps, coverThere, pages, edits>>
NamesDiffer(apps) == Cardinality({a.name : a \in Range(apps)}) = Len(apps)
LaunchById(i) ==
  LET at == SelectInSeq(servedApps, LAMBDA a : a.id = knownApps[i].id)
      clear == NamesDiffer(knownApps) /\ NamesDiffer(servedApps)
      Same(a, b) == a.key = b.key /\ a.name = b.name /\ a.image = b.image
  IN  /\ launchedAs' = [meant |-> IF clear THEN {knownApps[i].name} ELSE {},
                        found |-> IF clear /\ at # 0 THEN {servedApps[at].name} ELSE {},
                        due |-> {b.name : b \in {a \in Range(servedApps) :
                                                  Same(a, knownApps[i])}}]
      /\ lastEdit' = NoEdit
      /\ UNCHANGED <<appsFile, servedApps, coverThere, pages, edits, knownApps>>

(* External: the image file comes or goes.                                *)
CoverChanges ==
  /\ coverThere' = ~coverThere
  /\ lastEdit' = NoEdit /\ launchedAs' = NoLaunch
  /\ UNCHANGED <<appsFile, servedApps, pages, edits, knownApps>>

(* The host is started again: the list is what the file gives, if it does. *)
ReadAtStart ==
  /\ servedApps' = IF Parses(appsFile) THEN Served(appsFile, coverThere) ELSE <<>>
  /\ lastEdit' = NoEdit /\ launchedAs' = NoLaunch
  /\ UNCHANGED <<appsFile, coverThere, pages, edits, knownApps>>

-----------------------------------------------------------------------------
AppsInit ==
  /\ appsFile \in FirstApps /\ coverThere = TRUE
  /\ servedApps = (IF Parses(appsFile) THEN Served(appsFile, TRUE) ELSE <<>>)
  /\ pages = [e \in Editors |-> <<>>] /\ edits \in 0 .. MaxEdits
  /\ lastEdit = NoEdit /\ knownApps = <<>> /\ launchedAs = NoLaunch

(* A new app has a key of its own; the others keep theirs.                *)
AppOf(key, entry) ==
  [key |-> key, name |-> entry.name, cover |-> entry.cover, cmd |-> entry.cmd]
AppsNext ==
  \/ \E e \in Editors : GetApps(e)
  \/ \E app \in Entries, ok \in BOOLEAN :
       \/ AddApp(AppOf(10 + edits, app), ok)
       \/ \E e \in Editors : \E index \in DOMAIN pages[e] :
            ChangeApp(e, index, AppOf(pages[e][index].key, app), ok)
  \/ \E e \in Editors : \E index \in DOMAIN pages[e] :
       \E ok \in BOOLEAN : DeleteApp(e, index, ok)
  \/ TellApps \/ \E i \in DOMAIN knownApps : LaunchById(i)
  \/ CoverChanges \/ ReadAtStart

-----------------------------------------------------------------------------
(* The domains of the variables.                                          *)
AppsTypeOK ==
  /\ edits \in 0 .. MaxEdits /\ coverThere \in BOOLEAN
  /\ \A app \in Range(appsFile) : app.name \in Range(AppNames)

(* A change made on a page that shows the file as it is reaches the app   *)
(* the user chose, and no other.                                          *)
EditsTheChosen ==
  ~lastEdit.excused => lastEdit.arrived /\ lastEdit.lost \subseteq lastEdit.meant

(* In a command the value stands for every $(variable), a dollar for two, *)
(* and nothing else is changed; a bracket that is not closed is an error. *)
Closes(t, i) ==
  {j \in i + 1 .. Len(t) :
     /\ Cardinality({k \in i .. j : t[k] = "("}) = Cardinality({k \in i .. j : t[k] = ")"})
     /\ t[j] = ")"}
Meaning(t) ==
  LET n == Len(t)
      Of[i \in 1 .. n + 1] ==
        IF i > n THEN <<>>
        ELSE IF i = n \/ t[i] # "$" \/ t[i + 1] \notin {"$", "("} THEN <<t[i]>> \o Of[i + 1]
        ELSE IF t[i + 1] = "$" THEN <<"$">> \o Of[i + 2]
        ELSE IF Closes(t, i + 1) = {} THEN <<"thrown">>
        ELSE LET end == Min(Closes(t, i + 1))
             IN  EnvValue(SubSeq(t, i + 2, end - 1)) \o Of[end + 1]
  IN  Of[1]

(* The apps served are those of the file, in its order, with what their   *)
(* commands mean, as long as the commands have a meaning.                 *)
ServedAreSaved ==
  LET due == [i \in DOMAIN appsFile |-> Meaning(appsFile[i].cmd)]
  IN  (\A i \in DOMAIN due : "thrown" \notin Range(due[i])) =>
        /\ [i \in DOMAIN servedApps |-> servedApps[i].cmd] = due
        /\ \A i \in DOMAIN appsFile : servedApps[i].key = appsFile[i].key

(* No two apps have one id.                                               *)
IdsDistinct == Cardinality({a.id : a \in Range(servedApps)}) = Len(servedApps)

(* A client that launches an app it was told of gets that one, by its     *)
(* name, however the list was changed since, or none; and it gets it when *)
(* it is there unchanged.  Apps of one name are not told apart.           *)
LaunchesTheKnown ==
  /\ launchedAs.found \subseteq launchedAs.meant
  /\ launchedAs.meant # {} => launchedAs.due \subseteq launchedAs.found
=============================================================================

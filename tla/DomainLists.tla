---------------------------- MODULE DomainLists ----------------------------
(***************************************************************************)
(* The two domain lists of one instance, from the request that edits them  *)
(* to the squid that applies them: the files on the host (blocklist.py,    *)
(* blocklist-refresh.sh, editors), the copies lists-sync.sh builds in the  *)
(* container, and the lists squid has loaded.                              *)
(*                                                                         *)
(* Edits run on the event loop, ensure() and reload() in the threadpool;   *)
(* the entrypoint runs lists-sync.sh too.  A worker's step is one access   *)
(* to the files.  A file in the container is known with the processes that *)
(* have it open for writing: they hold the file, not its name.             *)
(***************************************************************************)
EXTENDS DomainNames

CONSTANTS
  Threads,     \* threadpool workers
  Loop,        \* the event loop
  Entrypoint,  \* the entrypoint of the container
  NoFile,      \* a list file that does not exist
  Edited,      \* Edited[l]: the names requests add to and remove from list l
  ByHand,      \* ByHand[l]: the contents an editor leaves in the file of l
  Fetched,     \* the lists blocklist-refresh.sh downloads
  MinLines     \* BLOCKLIST_MIN_LINES

Lists == {"blocked", "noauth"}
Workers == Threads \cup {Loop, Entrypoint}

ASSUME ListsAssumption ==
  /\ Loop \notin Threads /\ Entrypoint \notin Threads \cup {Loop}
  /\ \A list \in SUBSET Entry : list # NoFile
  /\ Edited \in [Lists -> SUBSET Names]
  /\ ByHand \in [Lists -> SUBSET SUBSET Entry]
  /\ Fetched \subseteq SUBSET Names
  /\ MinLines \in Nat

VARIABLES
  src,       \* the files in blocklists_dir/<name>, mounted into the container
  work,      \* each worker's request
  tmp, out,  \* /run/lmnsquid/lists: .<list>.tmp and <list>
  squid,     \* the container and the lists squid has loaded
  promised,  \* history: names whose add was answered and not taken back
  told,      \* history: a lone reload begun after the last change was answered
  since      \* history: the worker of such a reload

files == <<src, promised>>
run == <<tmp, out, squid>>
vars == <<src, work, tmp, out, squid, promised, told, since>>

Labels == {"idle", "check", "create", "read", "replace", "open", "fill", "move", "parse"}
Task ==
  [op : {"none", "add", "remove", "apply", "reload", "start"}, pc : Labels,
   list : Lists, name : Names \cup {<<>>},
   seen : SUBSET Entry]  \* what the worker read of the list's file
Idle == [op |-> "none", pc |-> "idle", list |-> "blocked", name |-> <<>>, seen |-> {}]

PcOf(op) ==
  CASE op = "none" -> {"idle"}
    [] op = "add" -> {"check", "create", "read", "replace"}
    [] op = "remove" -> {"read", "replace"}
    [] op = "apply" -> {"check", "create"}
    [] OTHER -> {"open", "fill", "move", "parse"}

File == {NoFile} \cup [data : SUBSET Entry, whole : BOOLEAN, by : SUBSET Workers]
Squid ==
  [state : {"down", "starting", "up"}, hup : BOOLEAN, loaded : [Lists -> SUBSET Entry]]
Down == [state |-> "down", hup |-> FALSE, loaded |-> [l \in Lists |-> {}]]

TypeOK ==
  /\ src \in [Lists -> {NoFile} \cup SUBSET Entry]
  /\ work \in [Workers -> Task]
  /\ \A w \in Workers : work[w].pc \in PcOf(work[w].op)
  /\ tmp \in [Lists -> File] /\ out \in [Lists -> File]
  /\ squid \in Squid
  /\ promised \in [Lists -> SUBSET Names]
  /\ told \in BOOLEAN /\ since \subseteq Workers

\* An instance whose lists were written by hand; its noauth list may date
\* from a control plane that had none.
Init ==
  /\ \E b \in ByHand["blocked"], n \in ByHand["noauth"] \cup {NoFile} :
       src = [l \in Lists |-> IF l = "blocked" THEN b ELSE n]
  /\ work = [w \in Workers |-> Idle]
  /\ tmp = [l \in Lists |-> NoFile] /\ out = [l \in Lists |-> NoFile]
  /\ squid = Down
  /\ promised = [l \in Lists |-> {}]
  /\ told = FALSE /\ since = {}

At(w, l) == work[w].pc = l
Goto(w, l) == work' = [work EXCEPT ![w].pc = l]
Done(w) == work' = [work EXCEPT ![w] = Idle]
Begin(w, t) == At(w, "idle") /\ work' = [work EXCEPT ![w] = t]
L(w) == work[w].list

\* os.replace / mv of the list on the host.
Replace(l, list) ==
  /\ src' = [src EXCEPT ![l] = list]
  /\ told' = FALSE /\ since' = {}
Entries(l) == IF src[l] = NoFile THEN {} ELSE src[l]

-----------------------------------------------------------------------------
(* Blocklist.                                                              *)

\* POST and DELETE of one domain.  normalize_domain dots every name.
Add(l, n) ==
  /\ l = "noauth" => AcceptsNoauth(n)
  /\ Begin(Loop, [Idle EXCEPT !.op = "add", !.pc = "check", !.list = l, !.name = n])
  /\ UNCHANGED <<files, run, told, since>>

Remove(l, n) ==
  /\ Begin(Loop, [Idle EXCEPT !.op = "remove", !.pc = "read", !.list = l, !.name = n])
  /\ UNCHANGED <<files, run, told, since>>

\* DockerService.ensure_running: ensure() of both lists.
Apply(w) ==
  /\ Begin(w, [Idle EXCEPT !.op = "apply", !.pc = "check"])
  /\ UNCHANGED <<files, run, told, since>>

\* Mutants: what follows an add's ensure() follows every ensure(); an add
\* writes its name without reading the list.
EnsuredReads(w) == Goto(w, "read")
EnsuredUnread(w) ==
  work' = [work EXCEPT ![w] =
             IF @.op = "add" THEN [@ EXCEPT !.pc = "replace"]
             ELSE IF @.list = "blocked" THEN [@ EXCEPT !.pc = "check", !.list = "noauth"]
             ELSE Idle]

Ensured(w) ==
  work' = [work EXCEPT ![w] =
             IF @.op = "add" THEN [@ EXCEPT !.pc = "read"]
             ELSE IF @.list = "blocked" THEN [@ EXCEPT !.pc = "check", !.list = "noauth"]
             ELSE Idle]

Check(w) ==
  /\ At(w, "check")
  /\ IF src[L(w)] = NoFile THEN Goto(w, "create") ELSE Ensured(w)
  /\ UNCHANGED <<files, run, told, since>>

Create(w) ==
  /\ At(w, "create")
  /\ Ensured(w)
  /\ Replace(L(w), {})
  /\ UNCHANGED <<promised, run>>

ReadList ==
  LET t == work[Loop]
      bare == [dot |-> FALSE, labels |-> t.name] IN
  /\ At(Loop, "read")
  /\ IF t.op = "remove" /\ Entries(t.list) \cap {Dotted(t.name), bare} = {}
     THEN Done(Loop)  \* KeyError: 404
     ELSE work' = [work EXCEPT ![Loop].pc = "replace", ![Loop].seen = Entries(t.list)]
  /\ UNCHANGED <<files, run, told, since>>

\* The new list; the request is answered.
WriteList ==
  LET t == work[Loop] IN
  /\ At(Loop, "replace")
  /\ Replace(t.list, IF t.op = "add" THEN Uncovered(t.seen \cup {Dotted(t.name)})
                     ELSE Uncovered(t.seen \ {Dotted(t.name), Bare(t.name)}))
  /\ promised' = [promised EXCEPT ![t.list] =
                    IF t.op = "add" THEN @ \cup {t.name}
                    ELSE {n \in @ : n # t.name /\ t.name \notin Parents(n)}]
  /\ Done(Loop)
  /\ UNCHANGED run

-----------------------------------------------------------------------------
(* Writers outside the control plane: they replace the whole list.         *)

HandEdit(l, list) ==
  /\ src[l] # list
  /\ Replace(l, list)
  /\ promised' = [promised EXCEPT ![l] = {}]
  /\ UNCHANGED <<work, run>>

\* blocklist-refresh.sh: every name dotted; too short a list is dropped.
Refresh(names) ==
  LET list == Uncovered({Dotted(n) : n \in names}) IN
  /\ Cardinality(list) >= MinLines
  /\ Replace("blocked", list)
  /\ promised' = [promised EXCEPT !["blocked"] = {}]
  /\ UNCHANGED <<work, run>>

-----------------------------------------------------------------------------
(* lists-sync.sh, in the entrypoint and before every reload.               *)

\* Mutant: the noauth list is copied like the blocklist.
SyncedUnfiltered(l, list) == Uncovered(list)

Synced(l, list) ==
  Uncovered(IF l = "noauth" THEN {e \in list : SyncKeepsNoauth(e)} ELSE list)

Syncing == {w \in Workers : work[w].op \in {"reload", "start"}}

\* One that begins beside another one is not alone, and neither is that one.
StartSync(w, op, pc) ==
  /\ Begin(w, [Idle EXCEPT !.op = op, !.pc = pc])
  /\ since' = IF Syncing = {} THEN {w} ELSE {}
  /\ told' = (told /\ Syncing = {})

\* Mutant: squid -k reconfigure before the lists are synced.
ReloadFirst(w) ==
  /\ squid.state # "down"
  /\ StartSync(w, "reload", "parse")
  /\ UNCHANGED <<files, run>>

Reload(w) ==
  /\ squid.state # "down"
  /\ StartSync(w, "reload", "open")
  /\ UNCHANGED <<files, run>>

\* The pipeline starts: its input is opened, its output created or truncated.
OpenTmp(w) ==
  /\ At(w, "open")
  /\ tmp' = [tmp EXCEPT ![L(w)] =
               [data |-> {}, whole |-> FALSE, by |-> {w} \cup (IF @ = NoFile THEN {} ELSE @.by)]]
  /\ work' = [work EXCEPT ![w].pc = "fill", ![w].seen = Synced(L(w), Entries(L(w)))]
  /\ UNCHANGED <<files, out, squid, told, since>>

\* What runs in the container ends with it, and its tmpfs goes.
Exit ==
  /\ squid' = Down /\ told' = FALSE /\ since' = {}
  /\ tmp' = [l \in Lists |-> NoFile] /\ out' = [l \in Lists |-> NoFile]
  /\ work' = [w \in Workers |->
                IF work[w].op \in {"reload", "start"} THEN Idle ELSE work[w]]

Filled(w, f) ==
  IF f # NoFile /\ w \in f.by
  THEN [data |-> work[w].seen, whole |-> TRUE, by |-> f.by \ {w}] ELSE f

\* sort writes the file its worker opened, under whatever name it has now.
FillTmp(w) ==
  /\ At(w, "fill")
  /\ tmp' = [tmp EXCEPT ![L(w)] = Filled(w, @)]
  /\ out' = [out EXCEPT ![L(w)] = Filled(w, @)]
  /\ Goto(w, "move")
  /\ UNCHANGED <<files, squid, told, since>>

NextList(w) ==
  work' = [work EXCEPT ![w].list = "noauth", ![w].seen = {},
             ![w].pc = IF L(w) = "blocked" THEN "open" ELSE "parse"]

\* chmod and mv; without the file they fail, and with them the script (set
\* -e), the reload or the entrypoint.
MoveTmp(w) ==
  /\ At(w, "move")
  /\ UNCHANGED files
  /\ \/ /\ tmp[L(w)] # NoFile
        /\ out' = [out EXCEPT ![L(w)] = tmp[L(w)]]
        /\ tmp' = [tmp EXCEPT ![L(w)] = NoFile]
        /\ NextList(w)
        /\ UNCHANGED <<squid, told, since>>
     \/ /\ tmp[L(w)] = NoFile /\ w # Entrypoint
        /\ Done(w)
        /\ since' = since \ {w}
        /\ UNCHANGED <<run, told>>
     \/ /\ tmp[L(w)] = NoFile /\ w = Entrypoint
        /\ Exit

-----------------------------------------------------------------------------
(* squid.                                                                  *)

Parses == \A l \in Lists : out[l] # NoFile /\ Loads(out[l].data)
Read == [l \in Lists |-> out[l].data]

\* squid -k reconfigure parses and signals the running squid.
Reconfigure(w) ==
  /\ work[w].op = "reload" /\ At(w, "parse")
  /\ Done(w)
  /\ since' = since \ {w}
  /\ IF squid.state = "up" /\ Parses
     THEN squid' = [squid EXCEPT !.hup = TRUE] /\ told' = (told \/ w \in since)
     ELSE UNCHANGED <<squid, told>>
  /\ UNCHANGED <<files, tmp, out>>

\* The running squid takes the signal and reads the lists again.
TakeSignal ==
  /\ squid.hup
  /\ IF Parses
     THEN /\ squid' = [squid EXCEPT !.hup = FALSE, !.loaded = Read]
          /\ UNCHANGED <<work, tmp, out, told, since>>
     ELSE Exit
  /\ UNCHANGED files

\* The container starts.
ContainerStart ==
  /\ squid.state = "down"
  /\ squid' = [Down EXCEPT !.state = "starting"]
  /\ StartSync(Entrypoint, "start", "open")
  /\ UNCHANGED <<files, tmp, out>>

\* The entrypoint execs squid once the configuration parses.
ExecSquid ==
  /\ At(Entrypoint, "parse")
  /\ IF Parses
     THEN /\ squid' = [squid EXCEPT !.state = "up", !.loaded = Read]
          /\ told' = (Entrypoint \in since)
          /\ since' = since \ {Entrypoint}
          /\ Done(Entrypoint)
          /\ UNCHANGED <<tmp, out>>
     ELSE Exit
  /\ UNCHANGED files

\* docker stop, a failed health check, a reboot.
ContainerStop == squid.state # "down" /\ Exit /\ UNCHANGED files

-----------------------------------------------------------------------------

Step(w) ==
  \/ Check(w) \/ Create(w)
  \/ OpenTmp(w) \/ FillTmp(w) \/ MoveTmp(w) \/ Reconfigure(w)

Next ==
  \/ \E l \in Lists : \E n \in Edited[l] : Add(l, n) \/ Remove(l, n)
  \/ ReadList \/ WriteList
  \/ \E w \in Threads : Apply(w) \/ Reload(w)
  \/ \E w \in Workers : Step(w)
  \/ \E l \in Lists : \E list \in ByHand[l] : HandEdit(l, list)
  \/ \E names \in Fetched : Refresh(names)
  \/ TakeSignal \/ ContainerStart \/ ExecSquid \/ ContainerStop

Spec == Init /\ [][Next]_vars

-----------------------------------------------------------------------------
(* Properties.                                                             *)

\* "a list squid cannot load never reaches it" (lists-sync.sh): whatever an
\* editor leaves in the file, squid -k reconfigure and the start of squid
\* find lists that squid 6 loads.
NothingBungled == \A l \in Lists : out[l] # NoFile => Loads(out[l].data)

\* "takes effect after reload": once a reload begun after the last change,
\* with no other one and no start beside it, is answered and squid has taken
\* the signal, it blocks and exempts exactly the hosts the files on the host
\* name.  Two that overlap share the temporary files, and squid may then read
\* an empty list.
ReloadTakesEffect ==
  (told /\ squid.state = "up" /\ ~squid.hup) =>
    \A host \in Names :
      /\ Matches(squid.loaded["blocked"], host) <=> Matches(Entries("blocked"), host)
      /\ Matches(squid.loaded["noauth"], host) <=>
           Matches({e \in Entries("noauth") : SyncKeepsNoauth(e)}, host)

\* The noauth list squid applies names no address and no top-level domain,
\* whoever wrote the file (ADR-016).
NoauthNamesDomains ==
  \A e \in squid.loaded["noauth"] : Len(e.labels) >= 2 /\ ~Address(e.labels)

\* A domain whose add was answered stays on the list until a request takes
\* it, or a parent of it, off again or somebody replaces the file.
AnsweredAddStays ==
  \A l \in Lists : \A n \in promised[l] : Matches(Entries(l), n)

\* It is lost in one way only: a thread's ensure() that found no list writes
\* its empty one over the list the add has made since.  No order of adds,
\* removes, reloads and edits of other names or by other writers loses it.
OnlyEnsureLosesAdds ==
  [][\A l \in Lists : \A n \in promised[l] \cap promised'[l] :
       Matches(Entries(l), n) /\ ~Matches(Entries(l), n)' =>
         \E w \in Threads : L(w) = l /\ At(w, "create") /\ ~At(w, "create")']_vars
=============================================================================

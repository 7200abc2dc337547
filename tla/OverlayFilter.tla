---------------------------- MODULE OverlayFilter ----------------------------
(***************************************************************************)
(* The minifilter's callbacks for opens, deletes and renames of one rule's  *)
(* files, and the service behind its port: messages that are refused, lost  *)
(* with the connection or answered too late, while the rule is disabled,    *)
(* enabled and pushed, and the service stops and starts.                    *)
(*                                                                          *)
(* A request of the driver is served in one step here; its steps, and what  *)
(* commit and discard do, are in OverlayStore.                              *)
(***************************************************************************)

CONSTANTS
    Paths,     \* files directly in the rule's source directory
    Links,     \* those that are junctions or links, or lie behind one
    NoPath,    \* no path
    NoFile,    \* the value of a path at which there is no file
    Apps,      \* processes that use files under the source directory
    Scenes     \* the paths and the trouble of the behaviours to look at

\* stop:  the service stops, or ends abruptly, and starts again
\* late:  FltSendMessage gives up waiting
\* fault: the service fails to do what it was asked
\* pause: the rule is disabled and enabled
\* push:  the rules are pushed to the driver again, for the sake of another rule
\* race:  a file goes away while another process's open of it is under way
\* raw:   processes open with FILE_OPEN_REPARSE_POINT
\* blind: the driver cannot get the name of a file, or memory or room for the path of
\*        its shadow file
TroubleKinds == {"stop", "late", "fault", "pause", "push", "race", "raw", "blind"}

ASSUME PathsAssumption == Links \subseteq Paths /\ NoPath \notin Paths
\* A path is no state of a record, and no path is no process.
ASSUME NamesAssumption ==
    Paths \intersect {"none", "created", "modified", "tombstone"} = {} /\ NoPath \notin Apps
ASSUME ScenesAssumption ==
    Scenes \subseteq [paths : SUBSET Paths, trouble : SUBSET TroubleKinds]
ASSUME NoFileAssumption == NoFile \notin {"old", "new"}

VARIABLES
    scene,    \* the paths that this behaviour uses, and the trouble it meets
    enabled,  \* the rule is enabled in the table rules
    cached,   \* the rule is in the driver's cache
    port,     \* the service is up and connected: gClientPort
    push,     \* where PushDriverRules is
    real,     \* the real files
    shadow,   \* the files under store\drive
    record,   \* the state of a path's record in the table changes; the target of a
              \* rename stands for the state renamed
    call,     \* the callback, or the handle, of each process
    serving   \* the request that the driver message thread has received

vars == <<scene, enabled, cached, port, push, real, shadow, record, call, serving>>
trouble == scene.trouble
files == <<real, shadow, record>>
rule == <<enabled, cached, port, push>>

\* A file of before, one that a process wrote, or none.
Files == {"old", "new", NoFile}

\* An open for reading or for writing, or a look at a file's attributes by its name.
Openings == {"read", "write", "look"}

Idle == [pc |-> "idle", op |-> "none", msg |-> "none", path |-> NoPath, target |-> NoPath,
         way |-> "free", answer |-> "none", seen |-> NoFile, on |-> "none"]
NoRequest == [app |-> NoPath, op |-> "none", msg |-> "none", path |-> NoPath,
              target |-> NoPath, waits |-> FALSE]

\* Calls that the driver should redirect: the rule is enabled and no push is under
\* way, or the service is away and the driver remembers the rule.
Guarded == IF port THEN enabled /\ push = "idle" ELSE cached

\* A call is due to be redirected, or free to reach the real file.  Others reach it
\* although the call is due: a "raw" open of a link itself, whether there is a link
\* or not, and a "blind" call.
WayKinds == {"free", "due", "raw", "blind"}
Way == IF Guarded THEN "due" ELSE "free"

Hidden(p) == record[p] \in Paths \union {"tombstone"}

\* The path that was renamed to p; at most one is.
RenamedInto(p) == {r \in Paths : record[r] = p}
Origin(p) == CHOOSE r \in RenamedInto(p) : TRUE

\* The renamed file at p has no shadow; a query copies it from where it came.
LacksShadow(p) == shadow[p] = NoFile /\ \E r \in RenamedInto(p) : real[r] # NoFile

\* What the overlay shows at p.
View(p) ==
    IF Hidden(p) THEN NoFile
    ELSE IF LacksShadow(p) THEN real[Origin(p)]
    ELSE IF shadow[p] # NoFile THEN shadow[p] ELSE real[p]

Update(x, fields) == call' = [call EXCEPT ![x] = fields]
Ends(x) == Update(x, Idle)

\* A handle; the way of its open matters for one on the real file.
Opened(entry, side) == [Idle EXCEPT !.pc = "open", !.on = side, !.op = entry.op,
                                    !.path = entry.path,
                                    !.way = IF side = "real" THEN entry.way ELSE "free"]
Opens(x, side) == Update(x, Opened(call[x], side))

\* A call whose request is with FltSendMessage, or finds the port disconnected.
Sent(entry, msg) == [entry EXCEPT !.pc = IF port THEN "sent" ELSE "answered", !.msg = msg,
                                  !.answer = IF port THEN "none" ELSE "error"]
Sends(x, msg) == Update(x, Sent(call[x], msg))

-----------------------------------------------------------------------------
Init ==
    /\ scene \in Scenes
    /\ enabled = TRUE
    /\ cached = TRUE
    /\ port = TRUE
    /\ push = "idle"
    /\ real \in [Paths -> {"old", NoFile}]
    /\ \A p \in Paths \ scene.paths : real[p] = NoFile
    /\ shadow = [p \in Paths |-> NoFile]
    /\ record = [p \in Paths |-> "none"]
    /\ call = [x \in Apps |-> Idle]
    /\ serving = NoRequest

(***************************************************************************)
(* PreCreate.  An open that the filter lets pass finds the real file, or    *)
(* creates it if it may, or fails.                                          *)
(***************************************************************************)

Pass(x, entry) ==
    LET p == entry.path
        opened == Opened(entry, "real")
    IN  \/ /\ real[p] # NoFile
           /\ Update(x, opened)
           /\ UNCHANGED files
        \/ /\ real[p] = NoFile /\ entry.op = "write"
           /\ real' = [real EXCEPT ![p] = "new"]
           /\ Update(x, opened)
           /\ UNCHANGED <<shadow, record>>
        \/ /\ real[p] = NoFile
           /\ Ends(x)
           /\ UNCHANGED files

\* PathOverlayShouldPassThroughReparsePointOpen.  One that may create a file and asks
\* for no right to write attributes is treated as an ordinary open for writing.
Ways(op) == {Way} \union (IF "raw" \in trouble /\ op # "look" THEN {"raw"} ELSE {})

\* PathOverlayFindSourceRuleForPath, and the query if the rule is found, unless the
\* path has no name or no shadow path.
Open(x, op, p) ==
    /\ call[x] = Idle
    /\ \E way \in Ways(op) :
          LET entry == [Idle EXCEPT !.op = op, !.path = p, !.way = way]
          IN  \/ cached /\ Update(x, Sent(entry, "query")) /\ UNCHANGED files
              \/ ~cached /\ Pass(x, entry)
              \/ cached /\ "blind" \in trouble /\ Pass(x, [entry EXCEPT !.way = "blind"])
    /\ UNCHANGED <<scene, rule, serving>>

\* An answered call, by the message that was answered.
Answered(x, op, msg) == call[x].pc = "answered" /\ call[x].op = op /\ call[x].msg = msg

\* QueryPath said that the path is deleted or renamed away.
OpenHidden(x) ==
    /\ \E op \in Openings : Answered(x, op, "query")
    /\ call[x].answer = "hidden"
    /\ Ends(x)
    /\ UNCHANGED <<scene, rule, files, serving>>

OpenPassthrough(x) ==
    /\ \E op \in Openings : Answered(x, op, "query")
    /\ call[x].answer = "passthrough"
    /\ Pass(x, call[x])
    /\ UNCHANGED <<scene, rule, serving>>

\* Whatever else the query answered, or that it failed, an open of a link itself
\* passes, also for writing, and also where a shadow file is what the overlay shows.
OpenRaw(x) ==
    /\ \E op \in Openings : Answered(x, op, "query")
    /\ call[x].answer \in {"normal", "error", "timeout"}
    /\ call[x].way = "raw"
    /\ Pass(x, call[x])
    /\ UNCHANGED <<scene, rule, serving>>

\* So does an open when there is no memory for the shadow path that was answered.
OpenBlind(x) ==
    /\ "blind" \in trouble
    /\ \E op \in Openings : Answered(x, op, "query")
    /\ call[x].answer = "normal"
    /\ Pass(x, [call[x] EXCEPT !.way = "blind"])
    /\ UNCHANGED <<scene, rule, serving>>

\* Variant: the real file is preferred.
ReadRealFirst(x) ==
    LET p == call[x].path
    IN  /\ Answered(x, "read", "query")
        /\ call[x].answer \in {"normal", "error", "timeout"} /\ call[x].way # "raw"
        /\ IF real[p] # NoFile THEN Opens(x, "real")
           ELSE IF shadow[p] # NoFile THEN Opens(x, "shadow")
           ELSE Ends(x)
        /\ UNCHANGED <<scene, rule, files, serving>>

\* Another open for reading goes on also after a query that failed: to the shadow file,
\* if there is one, or else to the real file.
Read(x) ==
    LET p == call[x].path
    IN  /\ Answered(x, "read", "query")
        /\ call[x].answer \in {"normal", "error", "timeout"} /\ call[x].way # "raw"
        /\ IF shadow[p] # NoFile THEN Opens(x, "shadow")
           ELSE IF real[p] # NoFile THEN Opens(x, "real")
           ELSE Ends(x)
        /\ UNCHANGED <<scene, rule, files, serving>>

\* A look finds a shadow file likewise, and is passed to the file system if there
\* is none.
Look(x) ==
    /\ Answered(x, "look", "query")
    /\ call[x].answer \in {"normal", "error", "timeout"}
    /\ IF shadow[call[x].path] # NoFile THEN Opens(x, "shadow") /\ UNCHANGED files
                                       ELSE Pass(x, call[x])
    /\ UNCHANGED <<scene, rule, serving>>

\* Variant: a query that failed lets the open pass.
RequestWriteIfQueried(x) ==
    /\ Answered(x, "write", "query")
    /\ call[x].answer \in {"normal", "error", "timeout"} /\ call[x].way # "raw"
    /\ IF call[x].answer = "error" THEN Pass(x, call[x])
                                   ELSE Sends(x, "request") /\ UNCHANGED files
    /\ UNCHANGED <<scene, rule, serving>>

\* So does an open for writing, to the copy-on-write request.
RequestWrite(x) ==
    /\ Answered(x, "write", "query")
    /\ call[x].answer \in {"normal", "error", "timeout"} /\ call[x].way # "raw"
    /\ Sends(x, "request")
    /\ UNCHANGED <<scene, rule, files, serving>>

\* Variant: the outcome of the copy-on-write is not looked at.
OpenShadowAnyway(x) ==
    /\ Answered(x, "write", "request")
    /\ shadow' = [shadow EXCEPT ![call[x].path] = IF @ = NoFile THEN "new" ELSE @]
    /\ Opens(x, "shadow")
    /\ UNCHANGED <<scene, rule, real, record, serving>>

\* The open is sent to the shadow path, where it may create a file, unless the
\* copy-on-write failed.  STATUS_TIMEOUT is a success code.
OpenShadow(x) ==
    LET p == call[x].path
    IN  /\ Answered(x, "write", "request")
        /\ \/ /\ call[x].answer # "error"
              /\ shadow' = [shadow EXCEPT ![p] = IF @ = NoFile THEN "new" ELSE @]
              /\ Opens(x, "shadow")
           \/ /\ call[x].answer = "error" \/ shadow[p] = NoFile
              /\ Ends(x)
              /\ UNCHANGED shadow
        /\ UNCHANGED <<scene, rule, real, record, serving>>

(***************************************************************************)
(* Handles, and PreSetInformation for a delete or rename through one.       *)
(***************************************************************************)

\* A handle keeps others from removing or moving the file it is on.  So does an
\* open on its way to the shadow file, but for "race".
Holds(x, p, side) ==
    /\ call[x].path = p
    /\ \/ call[x].on = side
       \/ /\ side = "shadow" /\ "race" \notin trouble
          /\ call[x].op \in Openings /\ call[x].pc \notin {"idle", "open"}
HeldByOther(x, p, side) == \E y \in Apps \ {x} : Holds(y, p, side)

Write(x) ==
    LET p == call[x].path
    IN  /\ call[x].pc = "open" /\ call[x].op = "write"
        /\ IF call[x].on = "real"
           THEN real' = [real EXCEPT ![p] = "new"] /\ UNCHANGED shadow
           ELSE shadow' = [shadow EXCEPT ![p] = "new"] /\ UNCHANGED real
        /\ UNCHANGED <<scene, rule, record, call, serving>>

Close(x) ==
    /\ call[x].pc \in {"open", "closing"}
    /\ Ends(x)
    /\ UNCHANGED <<scene, rule, files, serving>>

\* The file system removes the file that the handle is on, or moves it to the real
\* path that the process named, or next to the file if it named no directory.
Directly(x, entry) ==
    LET p == entry.path
        q == entry.target
        file == IF entry.on = "real" THEN real[p] ELSE shadow[p]
    IN  /\ ~HeldByOther(x, p, entry.on)
        /\ \E side \in {"real", entry.on} :
              LET After(f, here) == [r \in Paths |-> IF r = q /\ side = here THEN file
                                                    ELSE IF r = p /\ entry.on = here THEN NoFile
                                                    ELSE f[r]]
              IN  /\ q # NoPath => (IF side = "real" THEN real[q] ELSE shadow[q]) = NoFile
                  /\ real' = After(real, "real")
                  /\ shadow' = After(shadow, "shadow")
        /\ Update(x, [entry EXCEPT !.pc = "closing", !.msg = "none", !.answer = "none"])
        /\ UNCHANGED record

\* The rule is found for a path under the source and under store\drive alike, unless
\* the path has no name.
SetInformation(x, op, q) ==
    LET entry == [call[x] EXCEPT !.op = op, !.target = q, !.way = Way]
    IN  /\ call[x].pc = "open" /\ call[x].op = "write"
        /\ \/ cached /\ Update(x, Sent(entry, "query")) /\ UNCHANGED files
           \/ ~cached /\ Directly(x, entry)
           \/ cached /\ "blind" \in trouble /\ Directly(x, [entry EXCEPT !.way = "blind"])
        /\ UNCHANGED <<scene, rule, serving>>

\* The file system may refuse.
SetPassthrough(x) ==
    /\ \E op \in {"delete", "rename"}, msg \in {"query", "target"} : Answered(x, op, msg)
    /\ call[x].answer = "passthrough"
    /\ \/ Directly(x, call[x])
       \/ Ends(x) /\ UNCHANGED files
    /\ UNCHANGED <<scene, rule, serving>>

\* Whatever else a query answered, the request follows; a rename asks for its
\* target too.
Record(x) ==
    /\ call[x].answer # "passthrough"
    /\ \/ Answered(x, "delete", "query") /\ Sends(x, "request")
       \/ Answered(x, "rename", "query") /\ Sends(x, "target")
       \/ Answered(x, "rename", "target") /\ Sends(x, "request")
    /\ UNCHANGED <<scene, rule, files, serving>>

\* The request's status is that of the call, and the process closes the handle.
Recorded(x) ==
    /\ \E op \in {"delete", "rename"} : Answered(x, op, "request")
    /\ Ends(x)
    /\ UNCHANGED <<scene, rule, files, serving>>

(***************************************************************************)
(* The port.                                                                *)
(***************************************************************************)

\* The driver message thread takes a message, and refuses it if the rule is disabled.
Receive(x) ==
    /\ port
    /\ serving = NoRequest
    /\ call[x].pc = "sent"
    /\ IF enabled
       THEN /\ serving' = [app |-> x, op |-> call[x].op, msg |-> call[x].msg,
                           path |-> IF call[x].msg = "target" THEN call[x].target
                                                              ELSE call[x].path,
                           target |-> call[x].target, waits |-> TRUE]
            /\ Update(x, [call[x] EXCEPT !.pc = "served"])
       ELSE /\ Update(x, [call[x] EXCEPT !.pc = "answered", !.answer = "error"])
            /\ UNCHANGED serving
    /\ UNCHANGED <<scene, rule, files>>

\* Variant: the reply to a call that gave up goes to whatever it does next.
TimeOutUnnoticed(x) ==
    /\ "late" \in trouble
    /\ call[x].pc \in {"sent", "served"}
    /\ Update(x, [call[x] EXCEPT !.pc = "answered", !.answer = "timeout"])
    /\ UNCHANGED <<scene, rule, files, serving>>

\* FltSendMessage gives up.  A message that was not taken is withdrawn; one that
\* was is served all the same.
TimeOut(x) ==
    /\ "late" \in trouble
    /\ call[x].pc \in {"sent", "served"}
    /\ Update(x, [call[x] EXCEPT !.pc = "answered", !.answer = "timeout"])
    /\ serving' = IF call[x].pc = "served" THEN [serving EXCEPT !.waits = FALSE] ELSE serving
    /\ UNCHANGED <<scene, rule, files>>

(***************************************************************************)
(* ProcessDriverRequest.                                                    *)
(***************************************************************************)

\* FilterReplyMessage, which finds no one when the call gave up.
Reply(answer) ==
    /\ IF serving.waits
       THEN Update(serving.app,
                   [call[serving.app] EXCEPT
                        !.pc = "answered", !.answer = answer,
                        !.seen = IF serving.op \in {"read", "look"} THEN View(serving.path) ELSE NoFile])
       ELSE UNCHANGED call
    /\ serving' = NoRequest

\* The last statement of a request is on metadata.db, and may fail.
Recordings == IF "fault" \in trouble THEN BOOLEAN ELSE {TRUE}
RecordsIf(recorded, records) ==
    /\ record' = IF recorded THEN records ELSE record
    /\ Reply(IF recorded THEN "done" ELSE "error")

ServeQuery ==
    LET p == serving.path
    IN  /\ serving.msg \in {"query", "target"}
        /\ IF p \in Links THEN Reply("passthrough") /\ UNCHANGED shadow
           ELSE IF Hidden(p) THEN Reply("hidden") /\ UNCHANGED shadow
           ELSE /\ shadow' = [shadow EXCEPT ![p] = IF LacksShadow(p) THEN real[Origin(p)] ELSE @]
                /\ Reply("normal")
        /\ UNCHANGED <<scene, rule, real, record>>

\* PrepareCopyOnWrite, PersistChange included.
Prepared(p) == IF shadow[p] = NoFile THEN real[p] ELSE shadow[p]
Prepares(p) == [record EXCEPT ![p] = IF real[p] # NoFile THEN "modified" ELSE "created"]

ServeCopyOnWrite ==
    LET p == serving.path
    IN  /\ serving.op = "write" /\ serving.msg = "request"
        /\ p \notin Links
        /\ shadow' = [shadow EXCEPT ![p] = Prepared(p)]
        /\ \E recorded \in Recordings : RecordsIf(recorded, Prepares(p))
        /\ UNCHANGED <<scene, rule, real>>

Holder == IF serving.waits THEN serving.app ELSE NoPath

ServeDelete ==
    LET p == serving.path
    IN  /\ serving.op = "delete" /\ serving.msg = "request"
        /\ p \notin Links
        /\ ~HeldByOther(Holder, p, "shadow")
        /\ shadow' = [shadow EXCEPT ![p] = NoFile]
        /\ \E recorded \in Recordings :
               RecordsIf(recorded, [record EXCEPT ![p] = "tombstone"])
        /\ UNCHANGED <<scene, rule, real>>

RenameAllowed(p, q) ==
    /\ {p, q} \intersect Links = {}
    /\ record[p] # "tombstone"
    /\ record[q] = "none" /\ RenamedInto(q) = {}
    /\ real[q] = NoFile /\ shadow[q] = NoFile
    /\ Prepared(p) # NoFile

\* A created source is forgotten and its target created.
ServeRename ==
    LET p == serving.path
        q == serving.target
        renamed == IF record[p] = "created" THEN [record EXCEPT ![p] = "none", ![q] = "created"]
                                            ELSE [record EXCEPT ![p] = q]
    IN  /\ serving.op = "rename" /\ serving.msg = "request"
        /\ RenameAllowed(p, q)
        /\ ~HeldByOther(Holder, p, "shadow")
        /\ shadow' = [shadow EXCEPT ![p] = NoFile, ![q] = Prepared(p)]
        /\ \E recorded \in Recordings : RecordsIf(recorded, renamed)
        /\ UNCHANGED <<scene, rule, real>>

\* A request that is refused, or fails before it has done anything.
Refused ==
    LET p == serving.path
        q == serving.target
    IN  /\ serving.msg = "request"
        /\ \/ {p, q} \intersect Links # {}
           \/ serving.op # "write" /\ HeldByOther(Holder, p, "shadow")
           \/ serving.op = "rename" /\ ~RenameAllowed(p, q)

FailRequest ==
    /\ serving # NoRequest
    /\ Refused \/ "fault" \in trouble
    /\ Reply("error")
    /\ UNCHANGED <<scene, rule, files>>

(***************************************************************************)
(* The rule, the driver's cache of it, and the service's comings and goings.*)
(***************************************************************************)

SetEnabled ==
    /\ "pause" \in trouble
    /\ port /\ push = "idle"
    /\ enabled' = ~enabled
    /\ push' = "clear"
    /\ UNCHANGED <<scene, cached, port, files, call, serving>>

\* A command for another rule pushes all rules.
Repush ==
    /\ "push" \in trouble
    /\ port /\ push = "idle"
    /\ push' = "clear"
    /\ UNCHANGED <<scene, enabled, cached, port, files, call, serving>>

ClearRule ==
    /\ push = "clear"
    /\ cached' = FALSE
    /\ push' = IF enabled THEN "set" ELSE "idle"
    /\ UNCHANGED <<scene, enabled, port, files, call, serving>>

SetRule ==
    /\ push = "set"
    /\ cached' = TRUE
    /\ push' = "idle"
    /\ UNCHANGED <<scene, enabled, port, files, call, serving>>

\* The port goes: whoever waits gets an error, and the driver keeps its cache.  A
\* service that is stopped may still serve the request it has.
Stop ==
    /\ "stop" \in trouble
    /\ port
    /\ port' = FALSE
    /\ push' = "idle"
    /\ call' = [x \in Apps |-> IF call[x].pc \in {"sent", "served"}
                               THEN [call[x] EXCEPT !.pc = "answered", !.answer = "error"]
                               ELSE call[x]]
    /\ serving' \in {NoRequest, [serving EXCEPT !.waits = FALSE]}
    /\ UNCHANGED <<scene, enabled, cached, files>>

\* The service connects and synchronises the driver.
Start ==
    /\ ~port
    /\ serving = NoRequest
    /\ port' = TRUE
    /\ push' = "clear"
    /\ UNCHANGED <<scene, enabled, cached, files, call, serving>>

-----------------------------------------------------------------------------
OpenStep(x) ==
    \/ \E op \in Openings, p \in scene.paths : Open(x, op, p)
    \/ OpenHidden(x) \/ OpenPassthrough(x) \/ OpenRaw(x) \/ OpenBlind(x)
    \/ Read(x) \/ Look(x) \/ RequestWrite(x) \/ OpenShadow(x)

HandleStep(x) ==
    \/ Write(x) \/ Close(x)
    \/ SetInformation(x, "delete", NoPath)
    \/ \E q \in scene.paths \ {call[x].path} : SetInformation(x, "rename", q)
    \/ SetPassthrough(x) \/ Record(x) \/ Recorded(x)

PortStep(x) == Receive(x) \/ TimeOut(x)

ServiceStep ==
    \/ ServeQuery \/ ServeCopyOnWrite \/ ServeDelete \/ ServeRename \/ FailRequest
    \/ SetEnabled \/ Repush \/ ClearRule \/ SetRule
    \/ Stop \/ Start

Next == (\E x \in Apps : OpenStep(x) \/ HandleStep(x) \/ PortStep(x)) \/ ServiceStep

Spec == Init /\ [][Next]_vars

-----------------------------------------------------------------------------
Calls ==
    [pc : {"idle", "sent", "served", "answered", "open", "closing"},
     op : Openings \union {"none", "delete", "rename"},
     msg : {"none", "query", "target", "request"},
     path : Paths \union {NoPath}, target : Paths \union {NoPath},
     way : WayKinds,
     answer : {"none", "normal", "hidden", "passthrough", "done", "error", "timeout"},
     seen : Files,
     on : {"none", "real", "shadow"}]

\* Every variable is of its type; a call waits for the service exactly when the
\* service means to answer it, and a push needs the port.
TypeOK ==
    /\ scene \in Scenes
    /\ enabled \in BOOLEAN /\ cached \in BOOLEAN /\ port \in BOOLEAN
    /\ push \in {"idle", "clear", "set"} /\ (push # "idle" => port)
    /\ real \in [Paths -> Files] /\ shadow \in [Paths -> Files]
    /\ record \in [Paths -> {"none", "created", "modified", "tombstone"} \union Paths]
    /\ call \in [Apps -> Calls]
    /\ \A x \in Apps : call[x].pc = "served" <=> serving.app = x /\ serving.waits

\* Once a rule is enabled, no real file changes before a commit at the hand of a
\* process whose last open, delete or rename was due to be redirected, whatever the
\* query and the request answer, fail, time out or find the service gone: this is
\* PreCreate's and PreSetInformation's choice between redirecting, passing and failing
\* a call.  Excepted are a rename through a link and the two calls that the driver lets
\* through under an enabled rule: an open with FILE_OPEN_REPARSE_POINT, and a call whose
\* file, or shadow file, the driver cannot name.
RealIsIsolated ==
    [][\A p \in Paths \ Links : real'[p] # real[p] =>
           \E x \in Apps : LET c == call'[x]
                          IN  /\ p \in {c.path, c.target}
                              /\ c.op \notin {"read", "look"}
                              /\ c.on = "real" \/ c.pc = "closing"
                              /\ c.way # "due" \/ {c.path, c.target} \intersect Links # {}]_vars

\* A write that is redirected goes to a file that a record shows and a commit will
\* apply: PreCreate reparses an open only after the copy-on-write has succeeded, and
\* no delete, rename or push by others comes in between.  A wait that timed out
\* counts as a success, and a file can go away before the open reaches it, so "late"
\* and "race" are excepted.
GrantedIsRecorded ==
    [][\A x \in Apps : Answered(x, "write", "request") /\ call'[x].pc = "open" =>
           \/ {"late", "race"} \intersect trouble # {}
           \/ record[call[x].path] \in {"created", "modified"}]_vars

\* An open for reading, or a look, whose query was answered gets what the overlay shows, when
\* the query is answered or when the file is opened: PreCreate looks at the shadow
\* file and at the real file after the answer, when either may have come or gone.
\* An open with FILE_OPEN_REPARSE_POINT does not: it gets the real file.  "race" is
\* excepted as before, and "blind", in which the driver does not get at the answer.
ReadsAreCurrent ==
    [][\A x \in Apps :
           (\E op \in {"read", "look"} : Answered(x, op, "query"))
              /\ call[x].answer = "normal" /\ call[x].way # "raw" /\ call'[x] # call[x] =>
               \/ {"race", "blind"} \intersect trouble # {}
               \/ LET p == call[x].path
                      got == CASE call'[x].on = "shadow" -> shadow[p]
                               [] call'[x].on = "real" -> real[p]
                               [] OTHER -> NoFile
                  IN  got \in {call[x].seen, View(p)}]_vars

\* A real file changes only while the rule is disabled: README says that once the
\* rule is enabled a write does not reach the real file before a commit.
EnabledIsolates == [][\A p \in Paths \ Links : enabled => real'[p] = real[p]]_vars
=============================================================================

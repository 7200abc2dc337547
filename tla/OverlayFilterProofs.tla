------------------------- MODULE OverlayFilterProofs -------------------------
(***************************************************************************)
(* Theorems about OverlayFilter for any paths, links and processes and any  *)
(* scenes, but for the ones a theorem excludes.                             *)
(***************************************************************************)
EXTENDS OverlayFilter, TLAPS

(***************************************************************************)
(* The inductive form of TypeOK, by groups of variables.                    *)
(***************************************************************************)
FilesType ==
    /\ scene \in Scenes
    /\ real \in [Paths -> Files]
    /\ shadow \in [Paths -> Files]
    /\ record \in [Paths -> {"none", "created", "modified", "tombstone"} \union Paths]

\* Once a push is over, the driver has the rule exactly when it is enabled.
RuleType ==
    /\ enabled \in BOOLEAN /\ cached \in BOOLEAN /\ port \in BOOLEAN
    /\ push \in {"idle", "clear", "set"}
    /\ push # "idle" => port
    /\ push = "set" => enabled
    /\ port /\ push = "idle" => cached = enabled

\* A call under way has its path, and a rename its target.
CallOK(c) ==
    /\ c \in Calls
    /\ c.pc # "idle" => c.path \in Paths
    /\ c.op = "rename" => c.target \in Paths
    /\ c.msg = "target" => c.op = "rename"
    /\ c.pc \in {"sent", "served", "answered"} => c.msg # "none"

CallsType == call \in [Apps -> Calls] /\ \A x \in Apps : CallOK(call[x])

Requests ==
    [app : Apps \union {NoPath}, op : Openings \union {"none", "delete", "rename"},
     msg : {"none", "query", "target", "request"}, path : Paths \union {NoPath},
     target : Paths \union {NoPath}, waits : BOOLEAN]

\* The request is the one that the waiting call sent.
IsRequestOf(c) ==
    /\ c.pc = "served" /\ c.op = serving.op /\ c.msg = serving.msg
    /\ c.target = serving.target
    /\ serving.path = IF c.msg = "target" THEN c.target ELSE c.path

ServingType ==
    /\ serving \in Requests
    /\ serving.msg # "none" => serving.path \in Paths
    /\ serving.op = "rename" => serving.target \in Paths
    /\ serving.waits => /\ serving.app \in Apps /\ serving.msg # "none"
                        /\ IsRequestOf(call[serving.app])
    /\ \A x \in Apps : call[x].pc = "served" => serving.app = x /\ serving.waits

TypeInv == FilesType /\ RuleType /\ CallsType /\ ServingType

(***************************************************************************)
(* What else RealIsIsolated needs: the service lets a call pass only for a  *)
(* link, and who can write to a real file came by one or was not due to be  *)
(* redirected.                                                              *)
(***************************************************************************)
PassesOnlyLinks(c) ==
    c.pc = "answered" /\ c.answer = "passthrough" =>
        \/ c.msg = "query" /\ c.path \in Links
        \/ c.msg = "target" /\ c.target \in Links

WritesRealByLeave(c) ==
    c.pc = "open" /\ c.on = "real" /\ c.op = "write" => c.way # "due" \/ c.path \in Links

LeaveInv == \A x \in Apps : PassesOnlyLinks(call[x]) /\ WritesRealByLeave(call[x])

(***************************************************************************)
(* What else GrantedIsRecorded needs: a copy-on-write that succeeded is     *)
(* still recorded when the driver reads the answer.                         *)
(***************************************************************************)
GrantInv ==
    {"late", "race"} \intersect trouble = {} =>
        \A x \in Apps : Answered(x, "write", "request") /\ call[x].answer # "error" =>
                            record[call[x].path] \in {"created", "modified"}

(***************************************************************************)
(* What else ReadsAreCurrent needs: in an enclosed scene, where nothing goes *)
(* around the overlay, or in a narrow one, which has no room for a rename.   *)
(***************************************************************************)
Connected == enabled /\ cached /\ port /\ push = "idle"

ReadInv ==
    "race" \notin trouble =>
        \A x \in Apps : (\E op \in {"read", "look"} : Answered(x, op, "query"))
                           /\ call[x].answer = "normal" =>
                               ~Hidden(call[x].path) /\ ~LacksShadow(call[x].path)

\* A path has one file renamed to it, and it is the one that is copied from.
OneOrigin == \A r, s \in Paths : record[r] \in Paths /\ record[s] = record[r] => r = s

\* No call is for a link or passes for one, and a handle on a real file is there to look.
ReadsReal(c) ==
    /\ {c.path, c.target} \intersect Links = {}
    /\ c.way # "raw"
    /\ c.pc = "open" /\ c.on = "real" => c.op \in {"read", "look"}

EnclosedIn(s) == s.paths \intersect Links = {} /\ s.trouble \subseteq {"late", "fault", "race"}
Enclosed == EnclosedIn(scene)
EnclosedInv == Connected /\ (\A x \in Apps : ReadsReal(call[x])) /\ OneOrigin /\ ReadInv

\* The calls and the request are for paths of the scene, and nothing is renamed to itself.
InScene(c) ==
    /\ c.pc # "idle" => c.path \in scene.paths
    /\ c.op = "rename" => c.target \in scene.paths /\ c.target # c.path
RequestInScene ==
    serving.op = "rename" /\ serving.msg = "request" =>
        {serving.path, serving.target} \subseteq scene.paths /\ serving.target # serving.path

NarrowIn(s) == \A p, q \in s.paths \ Links : p = q
Narrow == NarrowIn(scene)
NarrowInv ==
    /\ (\A x \in Apps : InScene(call[x])) /\ RequestInScene
    /\ (\A p \in Paths : record[p] \notin Paths) /\ ReadInv

ReadingInv == (Enclosed /\ EnclosedInv) \/ (Narrow /\ NarrowInv)

-----------------------------------------------------------------------------
\* The groups together say what TypeOK says.
LEMMA TypeInvImpliesTypeOK == TypeInv => TypeOK
  BY DEF TypeInv, TypeOK, FilesType, RuleType, CallsType, CallOK, ServingType, IsRequestOf

\* The paths of a scene are paths.
LEMMA ScenePaths == FilesType => scene.paths \subseteq Paths /\ trouble \subseteq TroubleKinds
  BY ScenesAssumption DEF FilesType, trouble

\* What the overlay shows at a path is a file or no file.
LEMMA ViewType ==
    ASSUME FilesType, NEW p \in Paths
    PROVE  View(p) \in Files
<1>1. NoFile \in Files /\ real \in [Paths -> Files] /\ shadow \in [Paths -> Files]
  BY DEF FilesType, Files
<1>2. LacksShadow(p) => Origin(p) \in Paths
  BY DEF LacksShadow, Origin, RenamedInto
<1>3. QED
  BY <1>1, <1>2 DEF View

\* A process with no call, and a call that begins.
LEMMA IdleOK ==
    /\ CallOK(Idle)
    /\ \A op \in Openings, p \in Paths, w \in WayKinds :
           CallOK([Idle EXCEPT !.op = op, !.path = p, !.way = w])
<1>1. Idle \in Calls
  BY DEF Calls, Idle, Files, WayKinds
<1>2. CallOK(Idle)
  BY <1>1, PathsAssumption DEF CallOK, Idle
<1>3. ASSUME NEW op \in Openings, NEW p \in Paths, NEW w \in WayKinds
      PROVE  CallOK([Idle EXCEPT !.op = op, !.path = p, !.way = w])
  <2> DEFINE c == [Idle EXCEPT !.op = op, !.path = p, !.way = w]
  <2>1. c \in Calls
    BY <1>1 DEF Calls
  <2>2. c.path = p /\ c.op = op /\ c.pc = "idle" /\ c.msg = "none"
    BY DEF Idle
  <2>3. QED
    BY <2>1, <2>2 DEF CallOK, Openings
<1>4. QED
  BY <1>2, <1>3

\* A call goes on to send a message.
LEMMA SentOK ==
    ASSUME NEW c, CallOK(c), c.path \in Paths, port \in BOOLEAN,
           NEW msg \in {"query", "target", "request"}, msg = "target" => c.op = "rename"
    PROVE  CallOK(Sent(c, msg))
<1>1. c \in Calls
  BY DEF CallOK
<1>2. Sent(c, msg) \in Calls
  BY <1>1 DEF Calls, Sent
<1>3. /\ Sent(c, msg).path = c.path /\ Sent(c, msg).target = c.target
      /\ Sent(c, msg).op = c.op /\ Sent(c, msg).msg = msg
  BY <1>1 DEF Calls, Sent
<1>4. QED
  BY <1>2, <1>3 DEF CallOK

\* A call ends with a handle.
LEMMA OpenedOK ==
    ASSUME NEW c, CallOK(c), c.path \in Paths, c.op \in Openings, NEW side \in {"real", "shadow"}
    PROVE  CallOK(Opened(c, side))
<1>1. Idle \in Calls /\ c \in Calls
  BY IdleOK DEF CallOK
<1>2. Opened(c, side) \in Calls
  <2>1. PICK w \in WayKinds : w = IF side = "real" THEN c.way ELSE "free"
    <3>1. c.way \in WayKinds /\ "free" \in WayKinds
      BY <1>1 DEF Calls, WayKinds
    <3>2. QED
      BY <3>1
  <2>2. Opened(c, side) = [Idle EXCEPT !.pc = "open", !.on = side, !.op = c.op,
                                       !.path = c.path, !.way = w]
    BY <2>1, Zenon DEF Opened
  <2>3. QED
    BY <1>1, <2>2 DEF Calls
<1>3. /\ Opened(c, side).path = c.path /\ Opened(c, side).op = c.op
      /\ Opened(c, side).msg = "none" /\ Opened(c, side).pc = "open"
  BY DEF Opened, Idle
<1>4. QED
  BY <1>2, <1>3 DEF CallOK, Openings

\* A step of a process's call changes no other call.
LEMMA CallUpdated ==
    ASSUME CallsType, NEW x \in Apps, NEW c, CallOK(c), Update(x, c)
    PROVE  CallsType' /\ call'[x] = c /\ \A y \in Apps \ {x} : call'[y] = call[y]
<1>1. call' = [call EXCEPT ![x] = c] /\ c \in Calls /\ call \in [Apps -> Calls]
  BY DEF Update, CallOK, CallsType
<1>2. call'[x] = c /\ \A y \in Apps \ {x} : call'[y] = call[y]
  BY <1>1
<1>3. call' \in [Apps -> Calls]
  BY <1>1
<1>4. QED
  BY <1>2, <1>3 DEF CallsType

\* A step of a process whose call is not with the service leaves the request alone.
LEMMA ServingKept ==
    ASSUME TypeInv, NEW x \in Apps, NEW c, CallOK(c), Update(x, c),
           call[x].pc # "served", c.pc # "served", UNCHANGED serving
    PROVE  CallsType' /\ ServingType'
<1>1. CallsType' /\ call'[x] = c /\ \A y \in Apps \ {x} : call'[y] = call[y]
  BY CallUpdated DEF TypeInv
<1>2. \A y \in Apps : (call[y].pc = "served" \/ call'[y].pc = "served") => call'[y] = call[y]
  BY <1>1
<1>3. serving.waits => call'[serving.app] = call[serving.app] /\ serving.app \in Apps
  BY <1>2 DEF TypeInv, ServingType, IsRequestOf
<1>4. QED
  BY <1>1, <1>2, <1>3 DEF TypeInv, ServingType, IsRequestOf

\* A reply reaches the call that waits for it, and no other.
LEMMA ReplyType ==
    ASSUME TypeInv, NEW answer \in {"normal", "hidden", "passthrough", "done", "error"}, Reply(answer)
    PROVE  /\ CallsType' /\ ServingType'
           /\ \A y \in Apps : call'[y] # call[y] =>
                  /\ y = serving.app /\ serving.waits /\ IsRequestOf(call[y])
                  /\ call'[y] = [call[y] EXCEPT !.pc = "answered", !.answer = answer,
                                               !.seen = call'[y].seen]
<1>1. NoRequest \in Requests /\ serving' = NoRequest
  BY DEF Reply, NoRequest, Requests
<1>2. CASE serving.waits
  <2> DEFINE x == serving.app
             seen == IF serving.op \in {"read", "look"} THEN View(serving.path) ELSE NoFile
             c == [call[x] EXCEPT !.pc = "answered", !.answer = answer, !.seen = seen]
  <2>1. x \in Apps /\ IsRequestOf(call[x]) /\ serving.path \in Paths
    BY <1>2 DEF TypeInv, ServingType
  <2>2. seen \in Files
    BY <2>1, ViewType DEF TypeInv, Files
  <2>3. CallOK(call[x])
    BY <2>1 DEF TypeInv, CallsType
  <2>4. CallOK(c)
    BY <2>1, <2>2, <2>3 DEF CallOK, Calls, IsRequestOf
  <2>5. Update(x, c)
    BY <1>2 DEF Reply
  <2>6. CallsType' /\ call'[x] = c /\ \A y \in Apps \ {x} : call'[y] = call[y]
    BY <2>1, <2>4, <2>5, CallUpdated DEF TypeInv
  <2>7. \A y \in Apps : call'[y].pc # "served"
    <3>1. c.pc = "answered"
      BY <2>3 DEF CallOK, Calls
    <3>2. QED
      BY <2>6, <3>1 DEF TypeInv, ServingType
  <2>8. ServingType'
    BY <1>1, <2>7 DEF ServingType, NoRequest
  <2>9. c = [call[x] EXCEPT !.pc = "answered", !.answer = answer, !.seen = c.seen]
    BY <2>3 DEF CallOK, Calls
  <2>10. QED
    BY <1>2, <2>1, <2>6, <2>8, <2>9
<1>3. CASE ~serving.waits
  <2>1. UNCHANGED call
    BY <1>3 DEF Reply
  <2>2. \A y \in Apps : call'[y].pc # "served"
    BY <1>3, <2>1 DEF TypeInv, ServingType
  <2>3. QED
    BY <1>1, <2>1, <2>2 DEF TypeInv, CallsType, ServingType, NoRequest
<1>4. QED
  BY <1>2, <1>3

-----------------------------------------------------------------------------
\* The initial states have their types.
LEMMA InitType == Init => TypeInv
<1> SUFFICES ASSUME Init PROVE TypeInv
  OBVIOUS
<1>1. FilesType /\ RuleType
  BY DEF Init, FilesType, RuleType, Files
<1>2. \A x \in Apps : call[x] = Idle
  BY DEF Init
<1>3. CallsType
  <2>1. Idle \in Calls
    BY IdleOK DEF CallOK
  <2>2. call \in [Apps -> Calls]
    BY <2>1 DEF Init
  <2>3. QED
    BY <1>2, <2>2, IdleOK DEF CallsType
<1>4. ServingType
  BY <1>2 DEF Init, ServingType, NoRequest, Requests, Idle
<1>5. QED
  BY <1>1, <1>3, <1>4 DEF TypeInv

\* A step of a process that is not waiting for the service.
LEMMA AppStepType ==
    ASSUME TypeInv, NEW x \in Apps, NEW c, CallOK(c), Update(x, c),
           call[x].pc # "served", c.pc # "served",
           UNCHANGED <<scene, rule, serving>>,
           real' \in [Paths -> Files], shadow' \in [Paths -> Files], UNCHANGED record
    PROVE  TypeInv'
<1>1. CallsType' /\ ServingType'
  BY ServingKept
<1>2. FilesType' /\ RuleType'
  BY DEF TypeInv, FilesType, RuleType, rule
<1>3. QED
  BY <1>1, <1>2 DEF TypeInv

\* An open that the filter lets pass.
LEMMA PassType ==
    ASSUME TypeInv, NEW x \in Apps, NEW entry, CallOK(entry), entry.path \in Paths,
           entry.op \in Openings, call[x].pc # "served", Pass(x, entry),
           UNCHANGED <<scene, rule, serving>>
    PROVE  TypeInv'
<1>1. CallOK(Opened(entry, "real")) /\ Opened(entry, "real").pc # "served"
  BY OpenedOK DEF Opened, Idle
<1>2. CallOK(Idle) /\ Idle.pc # "served"
  BY IdleOK DEF Idle
<1>3. real' \in [Paths -> Files] /\ shadow' \in [Paths -> Files] /\ UNCHANGED record
  BY DEF Pass, files, TypeInv, FilesType, Files
<1>4. CASE Update(x, Opened(entry, "real"))
  BY <1>1, <1>3, <1>4, AppStepType
<1>5. CASE Update(x, Idle)
  BY <1>2, <1>3, <1>5, AppStepType
<1>6. QED
  BY <1>4, <1>5 DEF Pass, Ends

\* What a call that was answered, or a handle, has.
LEMMA PendingCall ==
    ASSUME TypeInv, NEW x \in Apps, call[x].pc \in {"answered", "open", "closing", "sent", "served"}
    PROVE  CallOK(call[x]) /\ call[x].path \in Paths
  BY DEF TypeInv, CallsType, CallOK

\* While the driver does not have the rule, no call is due to be redirected.
LEMMA UncachedIsFree == RuleType => Way \in {"free", "due"} /\ (~cached => Way = "free")
  BY DEF RuleType, Guarded, Way

\* The call that an open begins: a query that is sent, or an open that passes for want of
\* the rule or of a name.
OpenSends(x, c) == cached /\ Update(x, Sent(c, "query")) /\ UNCHANGED files
OpenPasses(x, c) == c.way # "due" /\ (cached => "blind" \in trouble) /\ Pass(x, c)

\* An open begins with a call of its own.
LEMMA OpenBegins ==
    ASSUME TypeInv, NEW x \in Apps, NEW op \in Openings, NEW p \in Paths, Open(x, op, p)
    PROVE  /\ call[x] = Idle /\ UNCHANGED <<scene, rule, serving>>
           /\ \E c \in Calls :
                  /\ CallOK(c) /\ c.path = p /\ c.op = op /\ c.target = NoPath
                  /\ c.way = "raw" => "raw" \in trouble
                  /\ OpenSends(x, c) \/ OpenPasses(x, c)
<1>1. PICK w \in Ways(op) :
          \/ cached /\ Update(x, Sent([Idle EXCEPT !.op = op, !.path = p, !.way = w], "query"))
                    /\ UNCHANGED files
          \/ ~cached /\ Pass(x, [Idle EXCEPT !.op = op, !.path = p, !.way = w])
          \/ cached /\ "blind" \in trouble
             /\ Pass(x, [[Idle EXCEPT !.op = op, !.path = p, !.way = w] EXCEPT !.way = "blind"])
  BY DEF Open
<1>2. w \in {"free", "due", "raw"} /\ (w = "raw" => "raw" \in trouble) /\ (~cached => w # "due")
  BY UncachedIsFree DEF Ways, TypeInv
<1> DEFINE c(v) == [Idle EXCEPT !.op = op, !.path = p, !.way = v]
<1>3. ASSUME NEW v \in WayKinds
      PROVE  /\ CallOK(c(v)) /\ c(v) \in Calls /\ c(v).path = p /\ c(v).op = op
             /\ c(v).target = NoPath /\ c(v).way = v
  <2>1. CallOK(c(v)) /\ c(v) \in Calls
    BY IdleOK DEF CallOK
  <2>2. c(v).path = p /\ c(v).op = op /\ c(v).target = NoPath /\ c(v).way = v
    BY DEF Idle
  <2>3. QED
    BY <2>1, <2>2
<1>4. [c(w) EXCEPT !.way = "blind"] = c("blind")
  BY DEF Idle
<1>5. \/ cached /\ Update(x, Sent(c(w), "query")) /\ UNCHANGED files
      \/ ~cached /\ Pass(x, c(w))
      \/ cached /\ "blind" \in trouble /\ Pass(x, c("blind"))
  BY <1>1, <1>4
<1> HIDE DEF c
<1>6. \E d \in Calls : /\ CallOK(d) /\ d.path = p /\ d.op = op /\ d.target = NoPath
                       /\ d.way = "raw" => "raw" \in trouble
                       /\ OpenSends(x, d) \/ OpenPasses(x, d)
  <2> USE DEF WayKinds
  <2>1. CASE cached /\ Update(x, Sent(c(w), "query")) /\ UNCHANGED files
    BY <1>2, <1>3, <2>1 DEF OpenSends
  <2>2. CASE ~cached /\ Pass(x, c(w))
    BY <1>2, <1>3, <2>2 DEF OpenPasses
  <2>3. CASE cached /\ "blind" \in trouble /\ Pass(x, c("blind"))
    BY <1>3, <2>3 DEF OpenPasses
  <2>4. QED
    BY <1>5, <2>1, <2>2, <2>3
<1>7. QED
  BY <1>6 DEF Open

\* The same for a delete or rename through a handle.
SetSends(x, c) == cached /\ Update(x, Sent(c, "query")) /\ UNCHANGED files
SetPasses(x, c) == c.way # "due" /\ (cached => "blind" \in trouble) /\ Directly(x, c)

\* A delete or rename begins with the call of its handle.
LEMMA SetInformationBegins ==
    ASSUME TypeInv, NEW x \in Apps, NEW op \in {"delete", "rename"}, NEW q \in Paths \union {NoPath},
           op = "rename" => q \in Paths, SetInformation(x, op, q)
    PROVE  /\ call[x].pc = "open" /\ call[x].op = "write" /\ UNCHANGED <<scene, rule, serving>>
           /\ CallOK(call[x]) /\ call[x].path \in Paths
           /\ \E c \in Calls :
                  /\ CallOK(c) /\ c.path = call[x].path /\ c.op = op /\ c.target = q
                  /\ c.pc = "open" /\ c.on = call[x].on /\ c.way # "raw"
                  /\ SetSends(x, c) \/ SetPasses(x, c)
<1>1. call[x].pc = "open" /\ call[x].op = "write" /\ UNCHANGED <<scene, rule, serving>>
  BY DEF SetInformation
<1>2. CallOK(call[x]) /\ call[x].path \in Paths /\ call[x] \in Calls
  BY <1>1, PendingCall DEF CallOK
<1> DEFINE c(v) == [call[x] EXCEPT !.op = op, !.target = q, !.way = v]
<1>3. ASSUME NEW v \in WayKinds
      PROVE  /\ CallOK(c(v)) /\ c(v) \in Calls /\ c(v).path = call[x].path /\ c(v).op = op
             /\ c(v).target = q /\ c(v).way = v /\ c(v).pc = "open" /\ c(v).on = call[x].on
  <2>1. c(v) \in Calls
    BY <1>2 DEF Calls
  <2>2. /\ c(v).path = call[x].path /\ c(v).op = op /\ c(v).target = q /\ c(v).way = v
        /\ c(v).pc = "open" /\ c(v).on = call[x].on /\ c(v).msg = call[x].msg
    BY <1>1, <1>2 DEF Calls
  <2>3. call[x].msg # "target"
    BY <1>1, <1>2 DEF CallOK
  <2>4. CallOK(c(v))
    BY <1>2, <2>1, <2>2, <2>3 DEF CallOK
  <2>5. QED
    BY <2>1, <2>2, <2>4
<1>4. [c(Way) EXCEPT !.way = "blind"] = c("blind")
  BY <1>2 DEF Calls
<1>5. Way \in {"free", "due"} /\ (~cached => Way = "free")
  BY UncachedIsFree DEF TypeInv
<1>6. \/ cached /\ Update(x, Sent(c(Way), "query")) /\ UNCHANGED files
      \/ ~cached /\ Directly(x, c(Way))
      \/ cached /\ "blind" \in trouble /\ Directly(x, c("blind"))
  BY <1>4 DEF SetInformation
<1> HIDE DEF c
<1>7. \E d \in Calls : /\ CallOK(d) /\ d.path = call[x].path /\ d.op = op /\ d.target = q
                       /\ d.pc = "open" /\ d.on = call[x].on /\ d.way # "raw"
                       /\ SetSends(x, d) \/ SetPasses(x, d)
  <2> USE DEF WayKinds
  <2>1. CASE cached /\ Update(x, Sent(c(Way), "query")) /\ UNCHANGED files
    BY <1>3, <1>5, <2>1 DEF SetSends
  <2>2. CASE ~cached /\ Directly(x, c(Way))
    BY <1>3, <1>5, <2>2 DEF SetPasses
  <2>3. CASE cached /\ "blind" \in trouble /\ Directly(x, c("blind"))
    BY <1>3, <2>3 DEF SetPasses
  <2>4. QED
    BY <1>6, <2>1, <2>2, <2>3
<1>8. QED
  BY <1>1, <1>2, <1>7

\* A call that loses its way is still a call.
LEMMA BlindOK ==
    ASSUME NEW c, CallOK(c)
    PROVE  LET b == [c EXCEPT !.way = "blind"]
           IN  /\ CallOK(b) /\ b \in Calls /\ b.path = c.path /\ b.op = c.op /\ b.target = c.target
               /\ b.way = "blind"
<1>1. c \in Calls
  BY DEF CallOK
<1> DEFINE b == [c EXCEPT !.way = "blind"]
<1>2. b \in Calls
  BY <1>1 DEF Calls, WayKinds
<1>3. /\ b.path = c.path /\ b.op = c.op /\ b.target = c.target /\ b.way = "blind"
      /\ b.pc = c.pc /\ b.msg = c.msg
  BY <1>1 DEF Calls
<1>4. QED
  BY <1>2, <1>3 DEF CallOK

\* Every step of an open leaves the types.
LEMMA OpenStepType ==
    ASSUME TypeInv, NEW x \in Apps, OpenStep(x)
    PROVE  TypeInv'
<1>1. port \in BOOLEAN /\ real \in [Paths -> Files] /\ shadow \in [Paths -> Files]
  BY DEF TypeInv, FilesType, RuleType
<1>2. ASSUME NEW op \in Openings, NEW p \in scene.paths, Open(x, op, p)
      PROVE  TypeInv'
  <2>1. p \in Paths
    BY ScenePaths DEF TypeInv
  <2>2. call[x].pc # "served" /\ UNCHANGED <<scene, rule, serving>>
    BY <1>2, <2>1, OpenBegins DEF Idle
  <2>3. PICK c \in Calls : /\ CallOK(c) /\ c.path = p /\ c.op = op
                           /\ OpenSends(x, c) \/ OpenPasses(x, c)
    BY <1>2, <2>1, OpenBegins
  <2>4. CASE OpenSends(x, c)
    <3>1. CallOK(Sent(c, "query"))
      BY <1>1, <2>1, <2>3, SentOK
    <3>2. Sent(c, "query").pc # "served"
      BY DEF Sent, Calls
    <3>3. QED
      BY <1>1, <2>2, <2>4, <3>1, <3>2, AppStepType DEF OpenSends, files
  <2>5. CASE OpenPasses(x, c)
    BY <2>1, <2>2, <2>3, <2>5, PassType DEF OpenPasses
  <2>6. QED
    BY <2>3, <2>4, <2>5
<1>3. ASSUME call[x].pc = "answered", call[x].op \in Openings
      PROVE  /\ CallOK(call[x]) /\ call[x].path \in Paths /\ call[x].pc # "served"
             /\ CallOK(Idle) /\ Idle.pc # "served"
             /\ \A side \in {"real", "shadow"} : CallOK(Opened(call[x], side))
                                               /\ Opened(call[x], side).pc # "served"
             /\ CallOK(Sent(call[x], "request")) /\ Sent(call[x], "request").pc # "served"
  <2>1. CallOK(call[x]) /\ call[x].path \in Paths /\ call[x].pc # "served"
    BY <1>3, PendingCall
  <2>2. Idle.pc # "served" /\ \A side \in {"real", "shadow"} : Opened(call[x], side).pc # "served"
    BY DEF Idle, Opened
  <2>3. Sent(call[x], "request").pc # "served"
    BY <2>1 DEF Sent, CallOK, Calls
  <2>4. CallOK(Sent(call[x], "request"))
    BY <1>1, <2>1, SentOK
  <2>5. \A side \in {"real", "shadow"} : CallOK(Opened(call[x], side))
    BY <1>3, <2>1, OpenedOK
  <2>6. QED
    BY <2>1, <2>2, <2>3, <2>4, <2>5, IdleOK
<1>4. ASSUME OpenHidden(x) PROVE TypeInv'
  BY <1>1, <1>3, <1>4, AppStepType DEF OpenHidden, Answered, Ends, files
<1>5. ASSUME OpenPassthrough(x) PROVE TypeInv'
  BY <1>3, <1>5, PassType DEF OpenPassthrough, Answered
<1>6. ASSUME Read(x) PROVE TypeInv'
  BY <1>1, <1>3, <1>6, AppStepType DEF Read, Answered, Openings, Opens, Ends, files
<1>7. ASSUME Look(x) PROVE TypeInv'
  <2>1. call[x].pc = "answered" /\ call[x].op \in Openings /\ UNCHANGED <<scene, rule, serving>>
    BY <1>7 DEF Look, Answered, Openings
  <2>2. CASE Opens(x, "shadow") /\ UNCHANGED files
    BY <1>1, <1>3, <2>1, <2>2, AppStepType DEF Opens, files
  <2>3. CASE Pass(x, call[x])
    BY <1>3, <2>1, <2>3, PassType
  <2>4. QED
    BY <1>7, <2>2, <2>3 DEF Look
<1>8. ASSUME RequestWrite(x) PROVE TypeInv'
  BY <1>1, <1>3, <1>8, AppStepType DEF RequestWrite, Answered, Openings, Sends, files
<1>9. ASSUME OpenShadow(x) PROVE TypeInv'
  <2>1. call[x].pc = "answered" /\ call[x].op \in Openings
    BY <1>9 DEF OpenShadow, Answered, Openings
  <2>2. shadow' \in [Paths -> Files] /\ real' = real /\ record' = record
    BY <1>1, <1>9 DEF OpenShadow, Files
  <2>3. QED
    BY <1>1, <1>3, <1>9, <2>1, <2>2, AppStepType DEF OpenShadow, Opens, Ends
<1>10. ASSUME OpenRaw(x) PROVE TypeInv'
  BY <1>3, <1>10, PassType DEF OpenRaw, Answered
<1>11. ASSUME OpenBlind(x) PROVE TypeInv'
  <2> DEFINE b == [call[x] EXCEPT !.way = "blind"]
  <2>1. /\ call[x].pc = "answered" /\ call[x].op \in Openings /\ Pass(x, b)
        /\ UNCHANGED <<scene, rule, serving>>
    BY <1>11 DEF OpenBlind, Answered
  <2>2. CallOK(b) /\ b.path \in Paths /\ b.op \in Openings
    BY <1>3, <2>1, BlindOK
  <2> HIDE DEF b
  <2>3. QED
    BY <2>1, <2>2, PassType
<1>12. QED
  BY <1>2, <1>4, <1>5, <1>6, <1>7, <1>8, <1>9, <1>10, <1>11 DEF OpenStep

\* The file system removes or moves the file of a handle.
LEMMA DirectlyType ==
    ASSUME TypeInv, NEW x \in Apps, NEW entry, CallOK(entry), entry.path \in Paths,
           call[x].pc # "served", Directly(x, entry), UNCHANGED <<scene, rule, serving>>
    PROVE  TypeInv'
<1> DEFINE c == [entry EXCEPT !.pc = "closing", !.msg = "none", !.answer = "none"]
           file == IF entry.on = "real" THEN real[entry.path] ELSE shadow[entry.path]
<1>1. real \in [Paths -> Files] /\ shadow \in [Paths -> Files] /\ NoFile \in Files
  BY DEF TypeInv, FilesType, Files
<1>2. file \in Files
  BY <1>1
<1>3. real' \in [Paths -> Files] /\ shadow' \in [Paths -> Files]
  BY <1>1, <1>2 DEF Directly
<1>4. CallOK(c)
  <2>1. entry \in Calls
    BY DEF CallOK
  <2>2. c \in Calls
    BY <2>1 DEF Calls
  <2>3. /\ c.path = entry.path /\ c.op = entry.op /\ c.target = entry.target
        /\ c.msg = "none" /\ c.pc = "closing"
    BY <2>1 DEF Calls
  <2>4. QED
    BY <2>2, <2>3 DEF CallOK
<1>5. c.pc # "served"
  BY DEF CallOK, Calls
<1>6. QED
  BY <1>3, <1>4, <1>5, AppStepType DEF Directly

\* Every step of a handle leaves the types.
LEMMA HandleStepType ==
    ASSUME TypeInv, NEW x \in Apps, HandleStep(x)
    PROVE  TypeInv'
<1>1. port \in BOOLEAN /\ real \in [Paths -> Files] /\ shadow \in [Paths -> Files]
  BY DEF TypeInv, FilesType, RuleType
<1>2. CallOK(Idle) /\ Idle.pc # "served"
  BY IdleOK DEF Idle
<1>3. ASSUME Write(x) PROVE TypeInv'
  <2>1. real' \in [Paths -> Files] /\ shadow' \in [Paths -> Files] /\ UNCHANGED record
    BY <1>1, <1>3 DEF Write, Files
  <2>2. UNCHANGED <<scene, rule, call, serving>>
    BY <1>3 DEF Write
  <2>3. FilesType' /\ RuleType' /\ CallsType'
    BY <2>1, <2>2 DEF TypeInv, FilesType, RuleType, rule, CallsType
  <2>4. ServingType'
    BY <2>2 DEF TypeInv, ServingType, IsRequestOf
  <2>5. QED
    BY <2>3, <2>4 DEF TypeInv
<1>4. ASSUME Close(x) PROVE TypeInv'
  BY <1>1, <1>2, <1>4, AppStepType DEF Close, Ends, files
<1>5. ASSUME NEW op \in {"delete", "rename"}, NEW q \in Paths \union {NoPath},
             op = "rename" => q \in Paths, SetInformation(x, op, q)
      PROVE  TypeInv'
  <2>1. call[x].pc # "served" /\ UNCHANGED <<scene, rule, serving>> /\ call[x].path \in Paths
    BY <1>5, SetInformationBegins
  <2>2. PICK c \in Calls : /\ CallOK(c) /\ c.path = call[x].path
                           /\ SetSends(x, c) \/ SetPasses(x, c)
    BY <1>5, SetInformationBegins
  <2>3. CASE SetSends(x, c)
    <3>1. CallOK(Sent(c, "query"))
      BY <1>1, <2>1, <2>2, SentOK
    <3>2. Sent(c, "query").pc # "served"
      BY DEF Sent, Calls
    <3>3. QED
      BY <1>1, <2>1, <2>3, <3>1, <3>2, AppStepType DEF SetSends, files
  <2>4. CASE SetPasses(x, c)
    BY <2>1, <2>2, <2>4, DirectlyType DEF SetPasses
  <2>5. QED
    BY <2>2, <2>3, <2>4
<1>6. ASSUME call[x].pc = "answered"
      PROVE  /\ CallOK(call[x]) /\ call[x].path \in Paths
             /\ \A msg \in {"target", "request"} :
                    (msg = "target" => call[x].op = "rename") =>
                        CallOK(Sent(call[x], msg)) /\ Sent(call[x], msg).pc # "served"
  <2>1. CallOK(call[x]) /\ call[x].path \in Paths
    BY <1>6, PendingCall
  <2>2. \A msg \in {"target", "request"} : Sent(call[x], msg).pc # "served"
    BY <2>1 DEF Sent, CallOK, Calls
  <2>3. QED
    BY <1>1, <2>1, <2>2, SentOK
<1>7. ASSUME SetPassthrough(x) PROVE TypeInv'
  <2>1. call[x].pc = "answered" /\ UNCHANGED <<scene, rule, serving>>
    BY <1>7 DEF SetPassthrough, Answered
  <2>2. CASE Directly(x, call[x])
    BY <1>6, <2>1, <2>2, DirectlyType
  <2>3. CASE Ends(x) /\ UNCHANGED files
    BY <1>1, <1>2, <2>1, <2>3, AppStepType DEF Ends, files
  <2>4. QED
    BY <1>7, <2>2, <2>3 DEF SetPassthrough
<1>8. ASSUME Record(x) PROVE TypeInv'
  <2>1. PICK msg \in {"target", "request"} :
            /\ call[x].pc = "answered" /\ (msg = "target" => call[x].op = "rename")
            /\ Update(x, Sent(call[x], msg))
    BY <1>8 DEF Record, Answered, Sends
  <2>2. UNCHANGED <<scene, rule, files, serving>>
    BY <1>8 DEF Record
  <2>3. QED
    BY <1>1, <1>6, <2>1, <2>2, AppStepType DEF files
<1>9. ASSUME Recorded(x) PROVE TypeInv'
  BY <1>1, <1>2, <1>9, AppStepType DEF Recorded, Answered, Ends, files
<1>10. SetInformation(x, "delete", NoPath) => TypeInv'
  BY <1>5
<1>11. \A q \in scene.paths : SetInformation(x, "rename", q) => TypeInv'
  BY <1>5, ScenePaths DEF TypeInv
<1>12. QED
  BY <1>3, <1>4, <1>7, <1>8, <1>9, <1>10, <1>11 DEF HandleStep

\* The message thread takes a message, or the driver gives up waiting.
LEMMA PortStepType ==
    ASSUME TypeInv, NEW x \in Apps, PortStep(x)
    PROVE  TypeInv'
<1>1. UNCHANGED <<scene, rule, files>> /\ call[x].pc \in {"sent", "served"}
  BY DEF PortStep, Receive, TimeOut
<1>2. FilesType' /\ RuleType'
  BY <1>1 DEF TypeInv, FilesType, RuleType, rule, files
<1>3. CallOK(call[x]) /\ call[x].path \in Paths /\ call[x] \in Calls
  BY <1>1, PendingCall DEF CallOK
<1>4. ASSUME NEW pc \in {"served", "answered"}, NEW answer \in {"none", "error", "timeout", call[x].answer}
      PROVE  CallOK([call[x] EXCEPT !.pc = pc, !.answer = answer])
  <2> DEFINE c == [call[x] EXCEPT !.pc = pc, !.answer = answer]
  <2>1. c \in Calls
    BY <1>3 DEF Calls
  <2>2. /\ c.path = call[x].path /\ c.op = call[x].op /\ c.msg = call[x].msg
        /\ c.target = call[x].target
    BY <1>3 DEF Calls
  <2>3. QED
    BY <1>1, <1>3, <2>1, <2>2 DEF CallOK
<1>5. ASSUME Receive(x), enabled PROVE CallsType' /\ ServingType'
  <2> DEFINE c == [call[x] EXCEPT !.pc = "served"]
  <2>1. CallOK(c)
    <3>1. c = [call[x] EXCEPT !.pc = "served", !.answer = call[x].answer]
      BY <1>3 DEF Calls
    <3>2. QED
      BY <1>4, <3>1
  <2>2. CallsType' /\ call'[x] = c /\ \A y \in Apps \ {x} : call'[y] = call[y]
    BY <1>5, <2>1, CallUpdated DEF Receive, TypeInv
  <2>3. \A y \in Apps \ {x} : call'[y].pc # "served"
    BY <1>5, <2>2 DEF Receive, NoRequest, TypeInv, ServingType
  <2>4. /\ c.pc = "served" /\ c.op = call[x].op /\ c.msg = call[x].msg
        /\ c.path = call[x].path /\ c.target = call[x].target
    BY <1>3 DEF Calls
  <2>5. serving' = [app |-> x, op |-> c.op, msg |-> c.msg,
                    path |-> IF c.msg = "target" THEN c.target ELSE c.path,
                    target |-> c.target, waits |-> TRUE]
    BY <1>5, <2>4 DEF Receive
  <2>6. c.msg # "none" /\ (c.msg = "target" => c.target \in Paths)
        /\ (c.op = "rename" => c.target \in Paths) /\ c.path \in Paths
    BY <1>1, <1>3, <2>4 DEF CallOK
  <2>7. serving' \in Requests
    BY <2>1, <2>5, <2>6 DEF Requests, CallOK, Calls
  <2>8. IsRequestOf(call[x])'
    BY <2>2, <2>4, <2>5 DEF IsRequestOf
  <2>9. QED
    BY <2>2, <2>3, <2>5, <2>6, <2>7, <2>8 DEF ServingType
<1>6. ASSUME Receive(x), ~enabled PROVE CallsType' /\ ServingType'
  <2>1. CallOK([call[x] EXCEPT !.pc = "answered", !.answer = "error"])
    BY <1>4
  <2>2. call[x].pc = "sent" /\ [call[x] EXCEPT !.pc = "answered", !.answer = "error"].pc = "answered"
    BY <1>3, <1>6 DEF Receive, Calls
  <2>3. QED
    BY <1>6, <2>1, <2>2, ServingKept DEF Receive
<1>7. ASSUME TimeOut(x) PROVE CallsType' /\ ServingType'
  <2> DEFINE c == [call[x] EXCEPT !.pc = "answered", !.answer = "timeout"]
  <2>1. CallOK(c) /\ c.pc = "answered"
    BY <1>3, <1>4 DEF Calls
  <2>2. CallsType' /\ call'[x] = c /\ \A y \in Apps \ {x} : call'[y] = call[y]
    BY <1>7, <2>1, CallUpdated DEF TimeOut, TypeInv
  <2>3. CASE call[x].pc = "served"
    <3>1. serving.app = x /\ serving' = [serving EXCEPT !.waits = FALSE]
      BY <1>7, <2>3 DEF TimeOut, TypeInv, ServingType
    <3>2. \A y \in Apps : call'[y].pc # "served"
      BY <2>1, <2>2, <3>1 DEF TypeInv, ServingType
    <3>3. /\ serving' \in Requests /\ ~serving'.waits /\ serving'.msg = serving.msg
          /\ serving'.op = serving.op /\ serving'.path = serving.path /\ serving'.target = serving.target
      BY <3>1 DEF TypeInv, ServingType, Requests
    <3>4. QED
      BY <2>2, <3>2, <3>3 DEF TypeInv, ServingType
  <2>4. CASE call[x].pc # "served"
    BY <1>7, <2>1, <2>4, ServingKept DEF TimeOut
  <2>5. QED
    BY <2>3, <2>4
<1>8. QED
  BY <1>2, <1>5, <1>6, <1>7 DEF PortStep, TypeInv

\* Answering a request leaves the types, whatever it did to the files.
LEMMA ServeType ==
    ASSUME TypeInv, NEW answer \in {"normal", "hidden", "passthrough", "done", "error"}, Reply(answer),
           UNCHANGED <<scene, rule, real>>, shadow' \in [Paths -> Files],
           record' \in [Paths -> {"none", "created", "modified", "tombstone"} \union Paths]
    PROVE  TypeInv'
<1>1. CallsType' /\ ServingType'
  BY ReplyType
<1>2. FilesType' /\ RuleType'
  BY DEF TypeInv, FilesType, RuleType, rule
<1>3. QED
  BY <1>1, <1>2 DEF TypeInv

\* What a copy-on-write, a delete or a rename leaves is a file or no file.
LEMMA PreparedType ==
    ASSUME TypeInv, NEW p \in Paths
    PROVE  Prepared(p) \in Files
  BY DEF Prepared, TypeInv, FilesType

\* Every step of a request leaves the types.
LEMMA ServiceStepType ==
    ASSUME TypeInv, ServiceStep
    PROVE  TypeInv'
<1> DEFINE Records == {"none", "created", "modified", "tombstone"} \union Paths
<1>1. /\ real \in [Paths -> Files] /\ shadow \in [Paths -> Files] /\ record \in [Paths -> Records]
      /\ NoFile \in Files
  BY DEF TypeInv, FilesType, Files
<1>2. serving.msg # "none" => serving.path \in Paths
  BY DEF TypeInv, ServingType
<1>3. ASSUME ServeQuery PROVE TypeInv'
  <2>1. serving.path \in Paths
    BY <1>2, <1>3 DEF ServeQuery
  <2>2. LacksShadow(serving.path) => Origin(serving.path) \in Paths
    BY DEF LacksShadow, Origin, RenamedInto
  <2>3. shadow' \in [Paths -> Files]
    BY <1>1, <1>3, <2>1, <2>2 DEF ServeQuery
  <2>4. PICK answer \in {"normal", "hidden", "passthrough"} : Reply(answer)
    BY <1>3 DEF ServeQuery
  <2>5. UNCHANGED <<scene, rule, real, record>>
    BY <1>3 DEF ServeQuery
  <2>6. QED
    BY <1>1, <2>3, <2>4, <2>5, ServeType
<1>4. ASSUME NEW recorded \in BOOLEAN, NEW records \in [Paths -> Records],
             RecordsIf(recorded, records), UNCHANGED <<scene, rule, real>>,
             shadow' \in [Paths -> Files]
      PROVE  TypeInv'
  <2>1. record' \in [Paths -> Records]
    BY <1>1, <1>4 DEF RecordsIf
  <2>2. QED
    BY <1>4, <2>1, ServeType DEF RecordsIf
<1>5. Recordings \subseteq BOOLEAN
  BY DEF Recordings
<1>6. ASSUME ServeCopyOnWrite PROVE TypeInv'
  <2>1. serving.path \in Paths
    BY <1>2, <1>6 DEF ServeCopyOnWrite
  <2>2. Prepares(serving.path) \in [Paths -> Records]
    BY <1>1 DEF Prepares
  <2>3. shadow' \in [Paths -> Files]
    BY <1>1, <1>6, <2>1, PreparedType DEF ServeCopyOnWrite
  <2>4. QED
    BY <1>4, <1>5, <1>6, <2>2, <2>3 DEF ServeCopyOnWrite
<1>7. ASSUME ServeDelete PROVE TypeInv'
  <2> DEFINE deleted == [record EXCEPT ![serving.path] = "tombstone"]
  <2>1. deleted \in [Paths -> Records]
    BY <1>1
  <2>2. shadow' \in [Paths -> Files] /\ UNCHANGED <<scene, rule, real>>
    BY <1>1, <1>7 DEF ServeDelete
  <2>3. PICK recorded \in BOOLEAN : RecordsIf(recorded, deleted)
    BY <1>5, <1>7 DEF ServeDelete
  <2> HIDE DEF deleted
  <2>4. QED
    BY <1>4, <2>1, <2>2, <2>3
<1>8. ASSUME ServeRename PROVE TypeInv'
  <2> DEFINE p == serving.path
             q == serving.target
             renamed == IF record[p] = "created"
                        THEN [record EXCEPT ![p] = "none", ![q] = "created"]
                        ELSE [record EXCEPT ![p] = q]
  <2>1. p \in Paths /\ q \in Paths
    BY <1>2, <1>8 DEF ServeRename, TypeInv, ServingType
  <2>2. renamed \in [Paths -> Records]
    BY <1>1, <2>1
  <2>3. shadow' \in [Paths -> Files] /\ UNCHANGED <<scene, rule, real>>
    BY <1>1, <1>8, <2>1, PreparedType DEF ServeRename
  <2>4. PICK recorded \in BOOLEAN : RecordsIf(recorded, renamed)
    BY <1>5, <1>8 DEF ServeRename
  <2> HIDE DEF renamed
  <2>5. QED
    BY <1>4, <2>2, <2>3, <2>4
<1>9. ASSUME FailRequest PROVE TypeInv'
  BY <1>1, <1>9, ServeType DEF FailRequest, files
<1>10. ASSUME SetEnabled \/ Repush \/ ClearRule \/ SetRule PROVE TypeInv'
  <2>1. RuleType'
    BY <1>10 DEF TypeInv, RuleType, SetEnabled, Repush, ClearRule, SetRule
  <2>2. UNCHANGED <<scene, files, call, serving>>
    BY <1>10 DEF SetEnabled, Repush, ClearRule, SetRule
  <2>3. FilesType' /\ CallsType' /\ ServingType'
    BY <2>2 DEF TypeInv, FilesType, CallsType, ServingType, IsRequestOf, files
  <2>4. QED
    BY <2>1, <2>3 DEF TypeInv
<1>11. ASSUME Stop PROVE TypeInv'
  <2>1. FilesType' /\ RuleType'
    BY <1>11 DEF Stop, TypeInv, FilesType, RuleType, files
  <2>2. ASSUME NEW x \in Apps
        PROVE  CallOK(call'[x]) /\ call'[x].pc # "served"
    <3>1. CallOK(call[x]) /\ call[x] \in Calls
      BY DEF TypeInv, CallsType, CallOK
    <3>2. CASE call[x].pc \in {"sent", "served"}
      <4> DEFINE c == [call[x] EXCEPT !.pc = "answered", !.answer = "error"]
      <4>1. call'[x] = c
        BY <1>11, <3>2 DEF Stop
      <4>2. c \in Calls
        BY <3>1 DEF Calls
      <4>3. /\ c.path = call[x].path /\ c.op = call[x].op /\ c.msg = call[x].msg
            /\ c.target = call[x].target /\ c.pc = "answered"
        BY <3>1 DEF Calls
      <4>4. QED
        BY <3>1, <3>2, <4>1, <4>2, <4>3 DEF CallOK
    <3>3. CASE call[x].pc \notin {"sent", "served"}
      <4>1. call'[x] = call[x]
        BY <1>11, <3>3 DEF Stop
      <4>2. QED
        BY <3>1, <3>3, <4>1
    <3>4. QED
      BY <3>2, <3>3
  <2>3. CallsType'
    <3>1. call' \in [Apps -> Calls]
      <4>1. \A x \in Apps : call'[x] \in Calls
        BY <2>2 DEF CallOK
      <4>2. call' = [x \in Apps |-> call'[x]]
        BY <1>11 DEF Stop
      <4>3. QED
        BY <4>1, <4>2
    <3>2. QED
      BY <2>2, <3>1 DEF CallsType
  <2>4. ServingType'
    <3>1. CASE serving' = NoRequest
      BY <2>2, <3>1 DEF ServingType, NoRequest, Requests
    <3>2. CASE serving' = [serving EXCEPT !.waits = FALSE]
      <4>1. /\ serving' \in Requests /\ ~serving'.waits /\ serving'.msg = serving.msg
            /\ serving'.op = serving.op /\ serving'.path = serving.path
            /\ serving'.target = serving.target
        BY <3>2 DEF TypeInv, ServingType, Requests
      <4>2. QED
        BY <2>2, <4>1 DEF TypeInv, ServingType
    <3>3. QED
      BY <1>11, <3>1, <3>2 DEF Stop
  <2>5. QED
    BY <2>1, <2>3, <2>4 DEF TypeInv
<1>12. ASSUME Start PROVE TypeInv'
  <2>1. FilesType' /\ RuleType'
    BY <1>12 DEF Start, TypeInv, FilesType, RuleType, files
  <2>2. CallsType' /\ ServingType'
    BY <1>12 DEF Start, TypeInv, CallsType, ServingType, IsRequestOf
  <2>3. QED
    BY <2>1, <2>2 DEF TypeInv
<1>13. QED
  BY <1>3, <1>6, <1>7, <1>8, <1>9, <1>10, <1>11, <1>12 DEF ServiceStep

\* No step of the filter, the port, the service or the rule leaves the types.
LEMMA NextType == TypeInv /\ [Next]_vars => TypeInv'
<1> SUFFICES ASSUME TypeInv, [Next]_vars PROVE TypeInv'
  OBVIOUS
<1>1. CASE Next
  BY <1>1, OpenStepType, HandleStepType, PortStepType, ServiceStepType DEF Next
<1>2. CASE UNCHANGED vars
  BY <1>2 DEF vars, TypeInv, FilesType, RuleType, CallsType, ServingType, IsRequestOf
<1>3. QED
  BY <1>1, <1>2

\* Every variable keeps its type, a call of the driver waits exactly while the
\* message thread of the service has its request, and a push needs the port.
THEOREM FilterTypeCorrect == Spec => []TypeOK
<1>1. Spec => []TypeInv
  BY InitType, NextType, PTL DEF Spec
<1>2. QED
  BY <1>1, TypeInvImpliesTypeOK, PTL

-----------------------------------------------------------------------------
\* A call whose next state has leave where it needs it leaves LeaveInv.
LEMMA LeaveKept ==
    ASSUME TypeInv, LeaveInv, NEW x \in Apps, NEW c, CallOK(c), Update(x, c),
           PassesOnlyLinks(c), WritesRealByLeave(c)
    PROVE  LeaveInv'
<1>1. call'[x] = c /\ \A y \in Apps \ {x} : call'[y] = call[y]
  BY CallUpdated DEF TypeInv
<1>2. QED
  BY <1>1 DEF LeaveInv

\* A call that ends, sends a message or opens a shadow file needs no leave.
LEMMA NeedsNoLeave ==
    /\ PassesOnlyLinks(Idle) /\ WritesRealByLeave(Idle)
    /\ \A c \in Calls, msg \in {"query", "target", "request"} :
           PassesOnlyLinks(Sent(c, msg)) /\ WritesRealByLeave(Sent(c, msg))
    /\ \A c \in Calls :
           PassesOnlyLinks(Opened(c, "shadow")) /\ WritesRealByLeave(Opened(c, "shadow"))
<1>1. PassesOnlyLinks(Idle) /\ WritesRealByLeave(Idle)
  BY DEF PassesOnlyLinks, WritesRealByLeave, Idle
<1>2. ASSUME NEW c \in Calls, NEW msg \in {"query", "target", "request"}
      PROVE  PassesOnlyLinks(Sent(c, msg)) /\ WritesRealByLeave(Sent(c, msg))
  <2>1. /\ Sent(c, msg).pc \in {"sent", "answered"}
        /\ Sent(c, msg).answer \in {"none", "error"}
    BY DEF Sent, Calls
  <2>2. QED
    BY <2>1 DEF PassesOnlyLinks, WritesRealByLeave
<1>3. ASSUME NEW c \in Calls
      PROVE  PassesOnlyLinks(Opened(c, "shadow")) /\ WritesRealByLeave(Opened(c, "shadow"))
  <2>1. Opened(c, "shadow").pc = "open" /\ Opened(c, "shadow").on = "shadow"
    BY DEF Opened, Idle
  <2>2. QED
    BY <2>1 DEF PassesOnlyLinks, WritesRealByLeave
<1>4. QED
  BY <1>1, <1>2, <1>3

\* The driver lets a call pass that it has no reason to redirect, or that is for a
\* link.
MayPass(entry) == entry.way # "due" \/ {entry.path, entry.target} \intersect Links # {}

\* How RealIsIsolated excuses a change of the real file at p by process x.
Excused(x, p) ==
    LET c == call'[x]
    IN  /\ p \in {c.path, c.target}
        /\ c.op \notin {"read", "look"}
        /\ c.on = "real" \/ c.pc = "closing"
        /\ c.way # "due" \/ {c.path, c.target} \intersect Links # {}

\* An open that passes by right changes only the real file that it opens.
LEMMA PassIsolates ==
    ASSUME TypeInv, LeaveInv, NEW x \in Apps, NEW entry, CallOK(entry), entry.path \in Paths,
           entry.op \in Openings, entry.way # "due" \/ entry.path \in Links \/ entry.op # "write",
           Pass(x, entry)
    PROVE  LeaveInv' /\ \A p \in Paths \ Links : real'[p] # real[p] => Excused(x, p)
<1> DEFINE c == Opened(entry, "real")
<1>1. CallOK(c) /\ CallOK(Idle)
  BY OpenedOK, IdleOK
<1>2. /\ c.path = entry.path /\ c.op = entry.op /\ c.on = "real" /\ c.pc = "open"
      /\ c.way = entry.way
  BY DEF Opened, Idle
<1>3. PassesOnlyLinks(c) /\ WritesRealByLeave(c)
  BY <1>2 DEF PassesOnlyLinks, WritesRealByLeave
<1>4. LeaveInv'
  BY <1>1, <1>3, LeaveKept, NeedsNoLeave DEF Pass, Ends
<1>5. ASSUME NEW p \in Paths \ Links, real'[p] # real[p]
      PROVE  Excused(x, p)
  <2>1. entry.op = "write" /\ p = entry.path /\ Update(x, c)
    BY <1>5 DEF Pass, files, TypeInv, FilesType
  <2>2. call'[x] = c
    BY <1>1, <2>1, CallUpdated DEF TypeInv
  <2>3. c.way # "due"
    BY <1>2, <1>5, <2>1
  <2>4. QED
    BY <1>2, <2>1, <2>2, <2>3 DEF Excused
<1>6. QED
  BY <1>4, <1>5

\* A delete or rename that passes by right changes the real files that it names.
LEMMA DirectlyIsolates ==
    ASSUME TypeInv, LeaveInv, NEW x \in Apps, NEW entry, CallOK(entry), entry.path \in Paths,
           entry.op \in {"delete", "rename"}, MayPass(entry), Directly(x, entry)
    PROVE  LeaveInv' /\ \A p \in Paths \ Links : real'[p] # real[p] => Excused(x, p)
<1> DEFINE c == [entry EXCEPT !.pc = "closing", !.msg = "none", !.answer = "none"]
<1>1. entry \in Calls
  BY DEF CallOK
<1>2. /\ c.path = entry.path /\ c.op = entry.op /\ c.target = entry.target
      /\ c.msg = "none" /\ c.pc = "closing" /\ c.way = entry.way
  BY <1>1 DEF Calls
<1>3. CallOK(c)
  <2>1. c \in Calls
    BY <1>1 DEF Calls
  <2>2. QED
    BY <1>2, <2>1 DEF CallOK
<1>4. Update(x, c)
  BY DEF Directly
<1>5. LeaveInv'
  <2>1. PassesOnlyLinks(c) /\ WritesRealByLeave(c)
    BY <1>2 DEF PassesOnlyLinks, WritesRealByLeave
  <2>2. QED
    BY <1>3, <1>4, <2>1, LeaveKept
<1>6. call'[x] = c
  BY <1>3, <1>4, CallUpdated DEF TypeInv
<1>7. ASSUME NEW p \in Paths \ Links, real'[p] # real[p]
      PROVE  Excused(x, p)
  <2>1. p \in {entry.path, entry.target}
    BY <1>7 DEF Directly, TypeInv, FilesType
  <2>2. QED
    BY <1>2, <1>6, <2>1 DEF Excused, MayPass
<1>8. QED
  BY <1>5, <1>7

\* A step of an open changes a real file only by leave.
LEMMA OpenStepIsolates ==
    ASSUME TypeInv, LeaveInv, NEW x \in Apps, OpenStep(x)
    PROVE  LeaveInv' /\ \A p \in Paths \ Links : real'[p] # real[p] => Excused(x, p)
<1> DEFINE Goal == LeaveInv' /\ \A p \in Paths \ Links : real'[p] # real[p] => Excused(x, p)
<1>1. ASSUME NEW c, CallOK(c), Update(x, c), PassesOnlyLinks(c), WritesRealByLeave(c), UNCHANGED real
      PROVE  Goal
  BY <1>1, LeaveKept
<1> HIDE DEF Goal
<1>2. CallOK(Idle)
  BY IdleOK
<1>3. ASSUME NEW op \in Openings, NEW p \in scene.paths, Open(x, op, p)
      PROVE  Goal
  <2>1. p \in Paths /\ port \in BOOLEAN
    BY ScenePaths DEF TypeInv, RuleType
  <2>2. PICK c \in Calls : /\ CallOK(c) /\ c.path = p /\ c.op = op
                           /\ OpenSends(x, c) \/ OpenPasses(x, c)
    BY <1>3, <2>1, OpenBegins
  <2>3. CASE OpenSends(x, c)
    <3>1. CallOK(Sent(c, "query"))
      BY <2>1, <2>2, SentOK
    <3>2. QED
      BY <1>1, <2>2, <2>3, <3>1, NeedsNoLeave DEF OpenSends, files
  <2>4. CASE OpenPasses(x, c)
    BY <2>1, <2>2, <2>4, PassIsolates DEF Goal, OpenPasses
  <2>5. QED
    BY <2>2, <2>3, <2>4
<1>4. ASSUME call[x].pc = "answered", call[x].op \in Openings
      PROVE  /\ CallOK(call[x]) /\ call[x].path \in Paths /\ call[x] \in Calls
             /\ CallOK(Opened(call[x], "shadow")) /\ CallOK(Opened(call[x], "real"))
             /\ CallOK(Sent(call[x], "request"))
  <2>1. CallOK(call[x]) /\ call[x].path \in Paths /\ port \in BOOLEAN
    BY <1>4, PendingCall DEF TypeInv, RuleType
  <2>2. CallOK(Opened(call[x], "shadow")) /\ CallOK(Opened(call[x], "real"))
    BY <1>4, <2>1, OpenedOK
  <2>3. CallOK(Sent(call[x], "request"))
    BY <2>1, SentOK
  <2>4. QED
    BY <2>1, <2>2, <2>3 DEF CallOK
<1>5. ASSUME OpenHidden(x) PROVE Goal
  BY <1>1, <1>2, <1>5, NeedsNoLeave DEF OpenHidden, Ends, files
<1>6. ASSUME OpenPassthrough(x) PROVE Goal
  <2>1. call[x].pc = "answered" /\ call[x].op \in Openings /\ Pass(x, call[x])
    BY <1>6 DEF OpenPassthrough, Answered
  <2>2. call[x].path \in Links
    BY <1>6 DEF OpenPassthrough, Answered, LeaveInv, PassesOnlyLinks
  <2>3. QED
    BY <1>4, <2>1, <2>2, PassIsolates DEF Goal
<1>7. ASSUME Read(x) PROVE Goal
  <2>1. call[x].pc = "answered" /\ call[x].op = "read" /\ UNCHANGED real
    BY <1>7 DEF Read, Answered, files
  <2>2. call[x].op \in Openings
    BY <2>1 DEF Openings
  <2>3. PassesOnlyLinks(Opened(call[x], "real")) /\ WritesRealByLeave(Opened(call[x], "real"))
    BY <2>1 DEF PassesOnlyLinks, WritesRealByLeave, Opened, Idle
  <2>4. \/ Update(x, Opened(call[x], "shadow")) \/ Update(x, Opened(call[x], "real"))
        \/ Update(x, Idle)
    BY <1>7 DEF Read, Opens, Ends
  <2>5. QED
    BY <1>1, <1>2, <1>4, <2>1, <2>2, <2>3, <2>4, NeedsNoLeave
<1>8. ASSUME Look(x) PROVE Goal
  <2>1. call[x].pc = "answered" /\ call[x].op = "look"
    BY <1>8 DEF Look, Answered
  <2>2. call[x].op \in Openings
    BY <2>1 DEF Openings
  <2>3. CASE Opens(x, "shadow") /\ UNCHANGED files
    BY <1>1, <1>4, <2>1, <2>2, <2>3, NeedsNoLeave DEF Opens, files
  <2>4. CASE Pass(x, call[x])
    BY <1>4, <2>1, <2>2, <2>4, PassIsolates DEF Goal
  <2>5. QED
    BY <1>8, <2>3, <2>4 DEF Look
<1>9. ASSUME RequestWrite(x) PROVE Goal
  BY <1>1, <1>4, <1>9, NeedsNoLeave DEF RequestWrite, Answered, Openings, Sends, files
<1>10. ASSUME OpenShadow(x) PROVE Goal
  BY <1>1, <1>2, <1>4, <1>10, NeedsNoLeave DEF OpenShadow, Answered, Openings, Opens, Ends
<1>11. ASSUME OpenRaw(x) PROVE Goal
  <2>1. /\ call[x].pc = "answered" /\ call[x].op \in Openings /\ Pass(x, call[x])
        /\ call[x].way = "raw"
    BY <1>11 DEF OpenRaw, Answered
  <2>2. QED
    BY <1>4, <2>1, PassIsolates DEF Goal
<1>12. ASSUME OpenBlind(x) PROVE Goal
  <2> DEFINE b == [call[x] EXCEPT !.way = "blind"]
  <2>1. call[x].pc = "answered" /\ call[x].op \in Openings /\ Pass(x, b)
    BY <1>12 DEF OpenBlind, Answered
  <2>2. CallOK(b) /\ b.path \in Paths /\ b.op \in Openings /\ b.way = "blind"
    BY <1>4, <2>1, BlindOK
  <2> HIDE DEF b
  <2>3. QED
    BY <2>1, <2>2, PassIsolates DEF Goal
<1>13. Goal
  BY <1>3, <1>5, <1>6, <1>7, <1>8, <1>9, <1>10, <1>11, <1>12 DEF OpenStep
<1>14. QED
  BY <1>13 DEF Goal

\* A step of a handle changes a real file only by leave.
LEMMA HandleStepIsolates ==
    ASSUME TypeInv, LeaveInv, NEW x \in Apps, HandleStep(x)
    PROVE  LeaveInv' /\ \A p \in Paths \ Links : real'[p] # real[p] => Excused(x, p)
<1> DEFINE Goal == LeaveInv' /\ \A p \in Paths \ Links : real'[p] # real[p] => Excused(x, p)
<1>1. ASSUME NEW c, CallOK(c), Update(x, c), PassesOnlyLinks(c), WritesRealByLeave(c), UNCHANGED real
      PROVE  Goal
  BY <1>1, LeaveKept
<1> HIDE DEF Goal
<1>2. CallOK(Idle)
  BY IdleOK
<1>3. ASSUME Write(x) PROVE Goal
  <2>1. LeaveInv' /\ call'[x] = call[x]
    BY <1>3 DEF Write, LeaveInv
  <2>2. ASSUME NEW p \in Paths \ Links, real'[p] # real[p]
        PROVE  Excused(x, p)
    <3>1. p = call[x].path /\ call[x].on = "real" /\ call[x].pc = "open" /\ call[x].op = "write"
      BY <1>3, <2>2 DEF Write, TypeInv, FilesType
    <3>2. call[x].way # "due" \/ call[x].path \in Links
      BY <3>1 DEF LeaveInv, WritesRealByLeave
    <3>3. QED
      BY <2>1, <3>1, <3>2 DEF Excused
  <2>3. QED
    BY <2>1, <2>2 DEF Goal
<1>4. ASSUME Close(x) PROVE Goal
  BY <1>1, <1>2, <1>4, NeedsNoLeave DEF Close, Ends, files
<1>5. ASSUME NEW op \in {"delete", "rename"}, NEW q \in Paths \union {NoPath},
             op = "rename" => q \in Paths, SetInformation(x, op, q)
      PROVE  Goal
  <2>1. call[x].path \in Paths /\ port \in BOOLEAN
    BY <1>5, SetInformationBegins DEF TypeInv, RuleType
  <2>2. PICK c \in Calls : /\ CallOK(c) /\ c.path = call[x].path /\ c.op = op
                           /\ SetSends(x, c) \/ SetPasses(x, c)
    BY <1>5, SetInformationBegins
  <2>3. CASE SetSends(x, c)
    <3>1. CallOK(Sent(c, "query"))
      BY <2>1, <2>2, SentOK
    <3>2. QED
      BY <1>1, <2>2, <2>3, <3>1, NeedsNoLeave DEF SetSends, files
  <2>4. CASE SetPasses(x, c)
    BY <2>1, <2>2, <2>4, DirectlyIsolates DEF Goal, SetPasses, MayPass
  <2>5. QED
    BY <2>2, <2>3, <2>4
<1>6. ASSUME SetPassthrough(x) PROVE Goal
  <2>1. /\ call[x].pc = "answered" /\ call[x].op \in {"delete", "rename"}
        /\ call[x].answer = "passthrough"
    BY <1>6 DEF SetPassthrough, Answered
  <2>2. CallOK(call[x]) /\ call[x].path \in Paths
    BY <2>1, PendingCall
  <2>3. MayPass(call[x])
    BY <2>1 DEF LeaveInv, PassesOnlyLinks, MayPass
  <2>4. CASE Directly(x, call[x])
    BY <2>1, <2>2, <2>3, <2>4, DirectlyIsolates DEF Goal
  <2>5. CASE Ends(x) /\ UNCHANGED files
    BY <1>1, <1>2, <2>5, NeedsNoLeave DEF Ends, files
  <2>6. QED
    BY <1>6, <2>4, <2>5 DEF SetPassthrough
<1>7. ASSUME Record(x) PROVE Goal
  <2>1. PICK msg \in {"target", "request"} :
            /\ call[x].pc = "answered" /\ (msg = "target" => call[x].op = "rename")
            /\ Update(x, Sent(call[x], msg))
    BY <1>7 DEF Record, Answered, Sends
  <2>2. UNCHANGED real
    BY <1>7 DEF Record, files
  <2>3. CallOK(call[x]) /\ call[x].path \in Paths /\ call[x] \in Calls /\ port \in BOOLEAN
    BY <2>1, PendingCall DEF CallOK, TypeInv, RuleType
  <2>4. CallOK(Sent(call[x], msg))
    BY <2>1, <2>3, SentOK
  <2>5. QED
    BY <1>1, <2>1, <2>2, <2>3, <2>4, NeedsNoLeave
<1>8. ASSUME Recorded(x) PROVE Goal
  BY <1>1, <1>2, <1>8, NeedsNoLeave DEF Recorded, Ends, files
<1>9. SetInformation(x, "delete", NoPath) => Goal
  BY <1>5
<1>10. \A q \in scene.paths : SetInformation(x, "rename", q) => Goal
  BY <1>5, ScenePaths DEF TypeInv
<1>11. Goal
  BY <1>3, <1>4, <1>6, <1>7, <1>8, <1>9, <1>10 DEF HandleStep
<1>12. QED
  BY <1>11 DEF Goal

\* The port and the service change no real file, and let only links pass.
LEMMA OtherStepsIsolate ==
    ASSUME TypeInv, LeaveInv, ServiceStep \/ \E x \in Apps : PortStep(x)
    PROVE  LeaveInv' /\ UNCHANGED real
<1>1. ASSUME NEW x \in Apps, PortStep(x) PROVE LeaveInv' /\ UNCHANGED real
  <2>1. PICK c : /\ Update(x, c) /\ UNCHANGED real
                 /\ \/ c = [call[x] EXCEPT !.pc = "served"]
                    \/ c = [call[x] EXCEPT !.pc = "answered", !.answer = "error"]
                    \/ c = [call[x] EXCEPT !.pc = "answered", !.answer = "timeout"]
    BY <1>1 DEF PortStep, Receive, TimeOut, files
  <2>2. call[x] \in Calls /\ call \in [Apps -> Calls]
    BY DEF TypeInv, CallsType
  <2>3. PassesOnlyLinks(c) /\ WritesRealByLeave(c)
    BY <2>1, <2>2 DEF PassesOnlyLinks, WritesRealByLeave, Calls
  <2>4. call'[x] = c /\ \A y \in Apps \ {x} : call'[y] = call[y]
    BY <2>1, <2>2 DEF Update
  <2>5. QED
    BY <2>1, <2>3, <2>4 DEF LeaveInv
<1>2. ASSUME NEW answer \in {"normal", "hidden", "passthrough", "done", "error"}, Reply(answer),
             answer = "passthrough" => serving.msg \in {"query", "target"} /\ serving.path \in Links
      PROVE  LeaveInv'
  <2>1. ASSUME NEW y \in Apps, call'[y] # call[y]
        PROVE  PassesOnlyLinks(call'[y]) /\ WritesRealByLeave(call'[y])
    <3>1. /\ IsRequestOf(call[y]) /\ call[y] \in Calls
          /\ call'[y] = [call[y] EXCEPT !.pc = "answered", !.answer = answer, !.seen = call'[y].seen]
      BY <1>2, <2>1, ReplyType DEF TypeInv, CallsType
    <3>2. /\ call'[y].pc = "answered" /\ call'[y].answer = answer /\ call'[y].msg = call[y].msg
          /\ call'[y].path = call[y].path /\ call'[y].target = call[y].target
      BY <3>1 DEF Calls
    <3>3. QED
      BY <1>2, <3>1, <3>2 DEF PassesOnlyLinks, WritesRealByLeave, IsRequestOf
  <2>2. QED
    BY <2>1 DEF LeaveInv
<1>3. ASSUME ServeQuery PROVE LeaveInv'
  BY <1>2, <1>3 DEF ServeQuery
<1>4. ASSUME ServeCopyOnWrite \/ ServeDelete \/ ServeRename \/ FailRequest PROVE LeaveInv'
  <2>1. PICK answer \in {"done", "error"} : Reply(answer)
    BY <1>4 DEF ServeCopyOnWrite, ServeDelete, ServeRename, FailRequest, RecordsIf
  <2>2. QED
    BY <1>2, <2>1
<1>5. ASSUME SetEnabled \/ Repush \/ ClearRule \/ SetRule \/ Start PROVE LeaveInv'
  BY <1>5 DEF SetEnabled, Repush, ClearRule, SetRule, Start, LeaveInv
<1>6. ASSUME Stop PROVE LeaveInv'
  <2>1. ASSUME NEW y \in Apps
        PROVE  PassesOnlyLinks(call'[y]) /\ WritesRealByLeave(call'[y])
    <3>1. call[y] \in Calls
      BY DEF TypeInv, CallsType
    <3>2. CASE call'[y] = [call[y] EXCEPT !.pc = "answered", !.answer = "error"]
      BY <3>1, <3>2 DEF Calls, PassesOnlyLinks, WritesRealByLeave
    <3>3. CASE call'[y] = call[y]
      BY <3>3 DEF LeaveInv
    <3>4. QED
      BY <1>6, <3>2, <3>3 DEF Stop
  <2>2. QED
    BY <2>1 DEF LeaveInv
<1>7. ServiceStep => UNCHANGED real
  BY DEF ServiceStep, ServeQuery, ServeCopyOnWrite, ServeDelete, ServeRename, FailRequest,
         SetEnabled, Repush, ClearRule, SetRule, Stop, Start, files
<1>8. QED
  BY <1>1, <1>3, <1>4, <1>5, <1>6, <1>7 DEF ServiceStep

\* RealIsIsolated: once a rule is enabled no real file changes before a commit but
\* at the hand of a process whose last open, delete or rename was not due to be redirected,
\* or came to the driver with FILE_OPEN_REPARSE_POINT or without the name of its file, or
\* goes through a link; in any trouble the driver and the service may meet.
THEOREM RealFilesAreIsolated == Spec => RealIsIsolated
<1>1. Init => LeaveInv
  BY NeedsNoLeave DEF Init, LeaveInv
<1>2. TypeInv /\ LeaveInv /\ [Next]_vars =>
          LeaveInv' /\ \A p \in Paths \ Links : real'[p] # real[p] => \E x \in Apps : Excused(x, p)
  <2> SUFFICES ASSUME TypeInv, LeaveInv, [Next]_vars
               PROVE  LeaveInv' /\ \A p \in Paths \ Links :
                          real'[p] # real[p] => \E x \in Apps : Excused(x, p)
    OBVIOUS
  <2>1. CASE Next
    BY <2>1, OpenStepIsolates, HandleStepIsolates, OtherStepsIsolate DEF Next
  <2>2. CASE UNCHANGED vars
    BY <2>2 DEF vars, LeaveInv
  <2>3. QED
    BY <2>1, <2>2
<1>3. TypeInv /\ LeaveInv /\ [Next]_vars =>
          \A p \in Paths \ Links : real'[p] # real[p] =>
              \E x \in Apps : LET c == call'[x]
                             IN  /\ p \in {c.path, c.target}
                                 /\ c.op \notin {"read", "look"}
                                 /\ c.on = "real" \/ c.pc = "closing"
                                 /\ c.way # "due" \/ {c.path, c.target} \intersect Links # {}
  BY <1>2 DEF Excused
<1>4. QED
  BY <1>1, <1>2, <1>3, InitType, NextType, PTL DEF Spec, RealIsIsolated

-----------------------------------------------------------------------------
\* What a call is after a step of its own that the service has no part in: not
\* answered, or answered for want of a service.
Unanswered(c) ==
    \/ c.pc # "answered"
    \/ c.answer = "error"
    \/ c.answer = "timeout" /\ "late" \in trouble

\* A process's step changes its own call alone, no record, and answers no call.
LEMMA AppStepEffect ==
    ASSUME TypeInv, NEW x \in Apps, OpenStep(x) \/ HandleStep(x) \/ PortStep(x)
    PROVE  /\ UNCHANGED <<scene, record>>
           /\ \A y \in Apps \ {x} : call'[y] = call[y]
           /\ call'[x] = call[x] \/ Unanswered(call'[x])
<1>1. UNCHANGED <<scene, record>>
  <2>1. ASSUME NEW op \in Openings, NEW p \in scene.paths, Open(x, op, p)
        PROVE  UNCHANGED <<scene, record>>
    <3>1. p \in Paths
      BY ScenePaths DEF TypeInv
    <3>2. PICK c \in Calls : OpenSends(x, c) \/ OpenPasses(x, c)
      BY <2>1, <3>1, OpenBegins
    <3>3. UNCHANGED scene
      BY <2>1, <3>1, OpenBegins
    <3>4. QED
      BY <3>2, <3>3 DEF OpenSends, OpenPasses, Pass, files
  <2>2. ASSUME NEW op \in {"delete", "rename"}, NEW q, SetInformation(x, op, q)
        PROVE  UNCHANGED <<scene, record>>
    BY <2>2 DEF SetInformation, Directly, files
  <2>3. CASE OpenStep(x)
    BY <2>1, <2>3 DEF OpenStep, Pass, OpenHidden, OpenPassthrough, OpenRaw, OpenBlind, Read, Look,
                      RequestWrite, OpenShadow, files
  <2>4. CASE HandleStep(x)
    BY <2>2, <2>4 DEF HandleStep, Write, Close, Directly, SetPassthrough, Record, Recorded, files
  <2>5. CASE PortStep(x)
    BY <2>5 DEF PortStep, Receive, TimeOut, files
  <2>6. QED
    BY <2>3, <2>4, <2>5
<1>2. call \in [Apps -> Calls] /\ call[x] \in Calls
  BY DEF TypeInv, CallsType
<1> DEFINE Fine == UNCHANGED call \/ \E c : Update(x, c) /\ Unanswered(c)
<1>3. ASSUME NEW c \in Calls, NEW msg, Update(x, Sent(c, msg)) PROVE Fine
  <2>1. Sent(c, msg).pc = "answered" => Sent(c, msg).answer = "error"
    BY DEF Sent, Calls
  <2>2. QED
    BY <1>3, <2>1 DEF Unanswered
<1>4. ASSUME NEW c, NEW side, Update(x, Opened(c, side)) PROVE Fine
  <2>1. Opened(c, side).pc = "open"
    BY DEF Opened, Idle
  <2>2. QED
    BY <1>4, <2>1 DEF Unanswered
<1>5. ASSUME Update(x, Idle) PROVE Fine
  BY <1>5 DEF Idle, Unanswered
<1>6. ASSUME NEW c, Pass(x, c) PROVE Fine
  BY <1>4, <1>5, <1>6 DEF Pass, Ends
<1>7. ASSUME NEW c \in Calls, Directly(x, c) PROVE Fine
  <2>1. [c EXCEPT !.pc = "closing", !.msg = "none", !.answer = "none"].pc = "closing"
    BY DEF Calls
  <2>2. Update(x, [c EXCEPT !.pc = "closing", !.msg = "none", !.answer = "none"])
    BY <1>7 DEF Directly
  <2>3. QED
    BY <2>1, <2>2 DEF Unanswered
<1>8. ASSUME OpenStep(x) PROVE Fine
  <2>1. ASSUME NEW op \in Openings, NEW p \in scene.paths, Open(x, op, p) PROVE Fine
    <3>1. p \in Paths
      BY ScenePaths DEF TypeInv
    <3>2. PICK c \in Calls : OpenSends(x, c) \/ OpenPasses(x, c)
      BY <2>1, <3>1, OpenBegins
    <3>3. QED
      BY <1>3, <1>6, <3>2 DEF OpenSends, OpenPasses
  <2>2. OpenPassthrough(x) \/ OpenRaw(x) \/ OpenBlind(x) => Fine
    BY <1>6 DEF OpenPassthrough, OpenRaw, OpenBlind
  <2>3. QED
    BY <1>2, <1>3, <1>4, <1>5, <1>6, <1>8, <2>1, <2>2
    DEF OpenStep, OpenHidden, Read, Look, RequestWrite, OpenShadow, Opens, Ends, Sends
<1>9. ASSUME HandleStep(x) PROVE Fine
  <2>1. ASSUME NEW op \in {"delete", "rename"}, NEW q \in Paths \union {NoPath},
               op = "rename" => q \in Paths, SetInformation(x, op, q)
        PROVE  Fine
    <3>1. PICK c \in Calls : SetSends(x, c) \/ SetPasses(x, c)
      BY <2>1, SetInformationBegins
    <3>2. QED
      BY <1>3, <1>7, <3>1 DEF SetSends, SetPasses
  <2>2. \A q \in scene.paths : SetInformation(x, "rename", q) => Fine
    BY <2>1, ScenePaths DEF TypeInv
  <2>3. SetInformation(x, "delete", NoPath) => Fine
    BY <2>1
  <2>4. QED
    BY <1>2, <1>3, <1>5, <1>7, <1>9, <2>2, <2>3
    DEF HandleStep, Write, Close, SetPassthrough, Record, Recorded, Sends, Ends
<1>10. ASSUME PortStep(x) PROVE Fine
  <2>1. PICK c : /\ Update(x, c)
                 /\ \/ c = [call[x] EXCEPT !.pc = "served"]
                    \/ c = [call[x] EXCEPT !.pc = "answered", !.answer = "error"]
                    \/ c = [call[x] EXCEPT !.pc = "answered", !.answer = "timeout"] /\ "late" \in trouble
    BY <1>10 DEF PortStep, Receive, TimeOut
  <2>2. Unanswered(c)
    BY <1>2, <2>1 DEF Unanswered, Calls
  <2>3. QED
    BY <2>1, <2>2
<1>11. Fine
  BY <1>8, <1>9, <1>10
<1>12. QED
  BY <1>1, <1>2, <1>11 DEF Update

\* A behaviour stays in its scene.
LEMMA SceneStays == ASSUME TypeInv, [Next]_vars PROVE scene' = scene /\ trouble' = trouble
<1>1. (\E y \in Apps : OpenStep(y) \/ HandleStep(y) \/ PortStep(y)) => scene' = scene
  BY AppStepEffect
<1>2. ServiceStep => scene' = scene
  BY DEF ServiceStep, ServeQuery, ServeCopyOnWrite, ServeDelete, ServeRename, FailRequest,
         SetEnabled, Repush, ClearRule, SetRule, Stop, Start
<1>3. QED
  BY <1>1, <1>2 DEF Next, vars, trouble

\* A step of the service or of the rule changes no call that is answered.
LEMMA AnsweredCallStays ==
    ASSUME TypeInv, NEW x \in Apps, call[x].pc = "answered", ServiceStep
    PROVE  call'[x] = call[x]
<1>1. ASSUME NEW answer \in {"normal", "hidden", "passthrough", "done", "error"}, Reply(answer)
      PROVE  call'[x] = call[x]
  BY <1>1, ReplyType DEF IsRequestOf
<1>2. (\E answer \in {"normal", "hidden", "passthrough", "done", "error"} : Reply(answer))
          \/ UNCHANGED call \/ Stop
  BY DEF ServiceStep, ServeQuery, ServeCopyOnWrite, ServeDelete, ServeRename, FailRequest, RecordsIf,
         SetEnabled, Repush, ClearRule, SetRule, Start
<1>3. QED
  BY <1>1, <1>2 DEF Stop

\* Another process's open on its way to the shadow file keeps the service from
\* removing or moving that file.
LEMMA OpensHoldShadow ==
    ASSUME TypeInv, "race" \notin trouble, NEW x \in Apps, call[x].pc = "answered",
           call[x].op \in Openings, ~HeldByOther(Holder, serving.path, "shadow")
    PROVE  call[x].path # serving.path
<1>1. x # Holder
  BY NamesAssumption DEF Holder, TypeInv, ServingType, IsRequestOf
<1>2. QED
  BY <1>1 DEF HeldByOther, Holds

\* The record of a copy-on-write that succeeded stays until the open goes on.
LEMMA GrantNext == TypeInv /\ GrantInv /\ [Next]_vars => GrantInv'
<1> SUFFICES ASSUME TypeInv, GrantInv, [Next]_vars, {"late", "race"} \intersect trouble' = {},
                    NEW x \in Apps, Answered(x, "write", "request")', call'[x].answer # "error"
             PROVE  record'[call'[x].path] \in {"created", "modified"}
  BY DEF GrantInv
<1>1. scene' = scene /\ trouble' = trouble
  BY SceneStays
<1>2. "late" \notin trouble /\ "race" \notin trouble
  BY <1>1
<1>3. call'[x] = call[x] => Answered(x, "write", "request") /\ record[call[x].path] \in {"created", "modified"}
  BY <1>1, <1>2 DEF GrantInv, Answered
<1>4. ASSUME NEW y \in Apps, OpenStep(y) \/ HandleStep(y) \/ PortStep(y)
      PROVE  record'[call'[x].path] \in {"created", "modified"}
  <2>1. record' = record /\ call'[x] = call[x]
    BY <1>2, <1>4, AppStepEffect DEF Answered, Unanswered
  <2>2. QED
    BY <1>3, <2>1
<1>5. ASSUME NEW answer \in {"normal", "hidden", "passthrough", "done", "error"}, Reply(answer),
             call'[x] # call[x]
      PROVE  /\ answer = call'[x].answer /\ serving.op = "write" /\ serving.msg = "request"
             /\ serving.path = call'[x].path
  <2>1. /\ IsRequestOf(call[x])
        /\ call'[x] = [call[x] EXCEPT !.pc = "answered", !.answer = answer, !.seen = call'[x].seen]
    BY <1>5, ReplyType
  <2>2. /\ call'[x].answer = answer /\ call'[x].op = call[x].op /\ call'[x].msg = call[x].msg
        /\ call'[x].path = call[x].path
    <3>1. call[x] \in Calls
      BY DEF TypeInv, CallsType
    <3>2. QED
      BY <2>1, <3>1 DEF Calls
  <2>3. QED
    BY <2>1, <2>2 DEF IsRequestOf, Answered
<1>6. record \in [Paths -> {"none", "created", "modified", "tombstone"} \union Paths]
  BY DEF TypeInv, FilesType
<1>7. CASE ServeQuery
  <2>1. PICK answer \in {"normal", "hidden", "passthrough"} : Reply(answer)
    BY <1>7 DEF ServeQuery
  <2>2. record' = record /\ serving.msg # "request"
    BY <1>7 DEF ServeQuery
  <2>3. QED
    BY <1>3, <1>5, <2>1, <2>2
<1>8. CASE ServeCopyOnWrite
  <2>1. PICK recorded \in BOOLEAN : RecordsIf(recorded, Prepares(serving.path))
    BY <1>8 DEF ServeCopyOnWrite, Recordings
  <2>2. CASE call'[x] = call[x]
    <3>1. \A p \in Paths : record'[p] \in {record[p], "created", "modified"}
      BY <1>6, <2>1 DEF RecordsIf, Prepares
    <3>2. call[x].path \in Paths
      BY <1>3, <2>2, PendingCall DEF Answered
    <3>3. QED
      BY <1>3, <2>2, <3>1, <3>2
  <2>3. CASE call'[x] # call[x]
    <3>1. recorded /\ serving.path = call'[x].path
      BY <1>5, <2>1, <2>3 DEF RecordsIf
    <3>2. serving.path \in Paths
      BY <1>8 DEF ServeCopyOnWrite, TypeInv, ServingType
    <3>3. QED
      BY <1>6, <2>1, <3>1, <3>2 DEF RecordsIf, Prepares
  <2>4. QED
    BY <2>2, <2>3
<1>9. CASE ServeDelete
  <2>1. PICK recorded \in BOOLEAN : RecordsIf(recorded, [record EXCEPT ![serving.path] = "tombstone"])
    BY <1>9 DEF ServeDelete, Recordings
  <2>2. call'[x] = call[x]
    BY <1>5, <1>9, <2>1 DEF RecordsIf, ServeDelete
  <2>3. call[x].path # serving.path /\ call[x].path \in Paths
    BY <1>2, <1>3, <1>9, <2>2, OpensHoldShadow, PendingCall DEF ServeDelete, Answered, Openings
  <2>4. record'[call[x].path] = record[call[x].path]
    BY <1>6, <2>1, <2>3 DEF RecordsIf
  <2>5. QED
    BY <1>3, <2>2, <2>4
<1>10. CASE ServeRename
  <2> DEFINE p == serving.path
             q == serving.target
             renamed == IF record[p] = "created"
                        THEN [record EXCEPT ![p] = "none", ![q] = "created"]
                        ELSE [record EXCEPT ![p] = q]
  <2>1. PICK recorded \in BOOLEAN : RecordsIf(recorded, renamed)
    BY <1>10 DEF ServeRename, Recordings
  <2>2. call'[x] = call[x]
    <3>1. Reply("done") \/ Reply("error")
      BY <2>1 DEF RecordsIf
    <3>2. QED
      BY <1>5, <1>10, <3>1 DEF ServeRename
  <2>3. call[x].path # p /\ call[x].path \in Paths
    BY <1>2, <1>3, <1>10, <2>2, OpensHoldShadow, PendingCall DEF ServeRename, Answered, Openings
  <2>4. call[x].path # q
    BY <1>3, <1>10, <2>2 DEF ServeRename, RenameAllowed
  <2>5. record'[call[x].path] = record[call[x].path]
    BY <1>6, <2>1, <2>3, <2>4 DEF RecordsIf
  <2>6. QED
    BY <1>3, <2>2, <2>5
<1>11. CASE FailRequest
  <2>1. Reply("error") /\ record' = record
    BY <1>11 DEF FailRequest, files
  <2>2. QED
    BY <1>3, <1>5, <2>1
<1>12. CASE SetEnabled \/ Repush \/ ClearRule \/ SetRule \/ Start \/ UNCHANGED vars
  BY <1>3, <1>12 DEF SetEnabled, Repush, ClearRule, SetRule, Start, vars, files
<1>13. CASE Stop
  <2>1. call'[x] = call[x]
    BY <1>13 DEF Stop, TypeInv, CallsType, Calls
  <2>2. QED
    BY <1>3, <1>13, <2>1 DEF Stop, files
<1>14. QED
  BY <1>4, <1>7, <1>8, <1>9, <1>10, <1>11, <1>12, <1>13 DEF Next, ServiceStep

\* A call whose copy-on-write was answered goes on to open its file only as
\* OpenShadow says.
LEMMA GrantedOpensShadow ==
    ASSUME TypeInv, [Next]_vars, NEW x \in Apps, Answered(x, "write", "request"), call'[x].pc = "open"
    PROVE  OpenShadow(x)
<1>1. call'[x] # call[x]
  BY DEF Answered
<1>2. ~ServiceStep /\ ~UNCHANGED vars
  BY <1>1, AnsweredCallStays DEF Answered, vars
<1>3. PICK y \in Apps : OpenStep(y) \/ HandleStep(y) \/ PortStep(y)
  BY <1>2 DEF Next
<1>4. y = x
  BY <1>1, <1>3, AppStepEffect
<1>5. ~PortStep(x)
  BY DEF PortStep, Receive, TimeOut, Answered
<1>6. ~HandleStep(x)
  BY DEF HandleStep, Write, Close, SetInformation, SetPassthrough, Record, Recorded, Answered
<1>7. \A op \in Openings, p \in scene.paths : ~Open(x, op, p)
  <2>1. call[x] # Idle
    BY DEF Answered, Idle
  <2>2. QED
    BY <2>1 DEF Open
<1>8. ~(\/ OpenHidden(x) \/ OpenPassthrough(x) \/ OpenRaw(x) \/ OpenBlind(x)
        \/ Read(x) \/ Look(x) \/ RequestWrite(x))
  BY DEF OpenHidden, OpenPassthrough, OpenRaw, OpenBlind, Read, Look, RequestWrite, Answered
<1>9. QED
  BY <1>3, <1>4, <1>5, <1>6, <1>7, <1>8 DEF OpenStep

\* GrantedIsRecorded: a write that is redirected goes to a file that a record
\* shows and a commit will apply, but where the driver gives up waiting or a file
\* may go away under an open.
THEOREM GrantsAreRecorded == Spec => GrantedIsRecorded
<1>1. Init => GrantInv
  BY DEF Init, GrantInv, Answered, Idle
<1>2. TypeInv /\ GrantInv /\ [Next]_vars =>
          \A x \in Apps : Answered(x, "write", "request") /\ call'[x].pc = "open" =>
              \/ {"late", "race"} \intersect trouble # {}
              \/ record[call[x].path] \in {"created", "modified"}
  <2> SUFFICES ASSUME TypeInv, GrantInv, [Next]_vars, NEW x \in Apps,
                      Answered(x, "write", "request"), call'[x].pc = "open",
                      {"late", "race"} \intersect trouble = {}
               PROVE  record[call[x].path] \in {"created", "modified"}
    OBVIOUS
  <2>1. OpenShadow(x)
    BY GrantedOpensShadow
  <2>2. CASE call[x].answer # "error"
    BY <2>2 DEF GrantInv
  <2>3. CASE call[x].answer = "error"
    <3>1. Update(x, Idle)
      BY <2>1, <2>3 DEF OpenShadow, Ends
    <3>2. call'[x] = Idle
      BY <3>1, IdleOK, CallUpdated DEF TypeInv
    <3>3. QED
      BY <3>2 DEF Idle
  <2>4. QED
    BY <2>2, <2>3
<1>3. QED
  BY <1>1, <1>2, InitType, NextType, GrantNext, PTL DEF Spec, GrantedIsRecorded

-----------------------------------------------------------------------------
\* What an enclosed scene uses and meets.
LEMMA EnclosedScene ==
    ASSUME Enclosed, TypeInv
    PROVE  scene.paths \intersect Links = {} /\ trouble \subseteq {"late", "fault", "race"}
  BY DEF Enclosed, EnclosedIn, trouble

\* A call that ends, sends a message or opens a file in order to look.
LEMMA ReadsRealKept ==
    /\ ReadsReal(Idle)
    /\ \A c \in Calls : ReadsReal(c) =>
           /\ \A msg \in {"query", "target", "request"} : ReadsReal(Sent(c, msg))
           /\ ReadsReal(Opened(c, "shadow"))
           /\ c.op \in {"read", "look"} => ReadsReal(Opened(c, "real"))
<1>1. NoPath \notin Links
  BY PathsAssumption
<1>2. ReadsReal(Idle)
  BY <1>1 DEF ReadsReal, Idle
<1>3. ASSUME NEW c \in Calls, ReadsReal(c), NEW msg \in {"query", "target", "request"}
      PROVE  ReadsReal(Sent(c, msg))
  <2>1. /\ Sent(c, msg).pc # "open" /\ Sent(c, msg).path = c.path
        /\ Sent(c, msg).target = c.target /\ Sent(c, msg).way = c.way
    BY DEF Sent, Calls
  <2>2. QED
    BY <1>3, <2>1 DEF ReadsReal
<1>4. ASSUME NEW c \in Calls, ReadsReal(c), NEW side \in {"real", "shadow"},
             side = "real" => c.op \in {"read", "look"}
      PROVE  ReadsReal(Opened(c, side))
  <2>1. /\ Opened(c, side).path = c.path /\ Opened(c, side).target = NoPath
        /\ Opened(c, side).on = side /\ Opened(c, side).op = c.op
        /\ Opened(c, side).way \in {"free", c.way}
    BY DEF Opened, Idle
  <2>2. QED
    BY <1>1, <1>4, <2>1 DEF ReadsReal
<1>5. QED
  BY <1>2, <1>3, <1>4

\* In an enclosed scene a process's step changes no real file, takes no shadow file
\* away, and goes for no link.
LEMMA EnclosedAppStep ==
    ASSUME Enclosed, TypeInv, LeaveInv, EnclosedInv, NEW x \in Apps,
           OpenStep(x) \/ HandleStep(x) \/ PortStep(x)
    PROVE  /\ UNCHANGED <<real, rule>> /\ ReadsReal(call'[x])
           /\ \A p \in Paths : shadow'[p] = NoFile => shadow[p] = NoFile
<1>1. call \in [Apps -> Calls] /\ call[x] \in Calls /\ ReadsReal(call[x]) /\ cached
  BY DEF TypeInv, CallsType, EnclosedInv, Connected
<1>2. ~(call[x].pc = "answered" /\ call[x].answer = "passthrough")
  BY <1>1 DEF LeaveInv, PassesOnlyLinks, ReadsReal
<1> DEFINE Goal == /\ UNCHANGED <<real, rule>> /\ ReadsReal(call'[x])
                   /\ \A p \in Paths : shadow'[p] = NoFile => shadow[p] = NoFile
<1>3. ASSUME NEW c, Update(x, c), ReadsReal(c), UNCHANGED <<real, rule>>,
             \A p \in Paths : shadow'[p] = NoFile => shadow[p] = NoFile
      PROVE  Goal
  BY <1>1, <1>3 DEF Update
<1>4. /\ scene.paths \intersect Links = {} /\ scene.paths \subseteq Paths
      /\ "raw" \notin trouble /\ "blind" \notin trouble
  BY EnclosedScene, ScenePaths DEF TypeInv
<1>5. ASSUME OpenStep(x) PROVE Goal
  <2>1. ASSUME NEW op \in Openings, NEW p \in scene.paths, Open(x, op, p) PROVE Goal
    <3>1. PICK c \in Calls :
              /\ c.path = p /\ c.op = op /\ c.target = NoPath
              /\ c.way = "raw" => "raw" \in trouble
              /\ OpenSends(x, c) \/ OpenPasses(x, c)
      BY <1>4, <2>1, OpenBegins
    <3>2. OpenSends(x, c)
      BY <1>1, <1>4, <3>1 DEF OpenPasses
    <3>3. ReadsReal(Sent(c, "query"))
      <4>1. /\ Sent(c, "query").pc # "open" /\ Sent(c, "query").path = p
            /\ Sent(c, "query").target = NoPath /\ Sent(c, "query").way # "raw"
        BY <1>4, <3>1 DEF Sent, Calls
      <4>2. QED
        BY <1>4, <4>1, PathsAssumption DEF ReadsReal
    <3>4. UNCHANGED rule
      BY <1>4, <2>1, OpenBegins
    <3>5. QED
      BY <1>3, <3>2, <3>3, <3>4 DEF OpenSends, files
  <2>2. ASSUME OpenHidden(x) PROVE Goal
    BY <1>3, <2>2, ReadsRealKept DEF OpenHidden, Ends, files
  <2>3. ~OpenPassthrough(x)
    BY <1>2 DEF OpenPassthrough, Answered
  <2>4. ASSUME Read(x) PROVE Goal
    <3>1. call[x].op = "read" /\ UNCHANGED <<rule, files>>
      BY <2>4 DEF Read, Answered
    <3>2. \/ Update(x, Idle)
          \/ Update(x, Opened(call[x], "shadow")) \/ Update(x, Opened(call[x], "real"))
      BY <2>4 DEF Read, Ends, Opens
    <3>3. QED
      BY <1>1, <1>3, <3>1, <3>2, ReadsRealKept DEF files
  <2>5. ASSUME Look(x) PROVE Goal
    <3>1. call[x].op = "look" /\ UNCHANGED <<rule, files>>
      BY <2>5 DEF Look, Answered, Pass
    <3>2. \/ Update(x, Idle)
          \/ Update(x, Opened(call[x], "shadow")) \/ Update(x, Opened(call[x], "real"))
      BY <2>5 DEF Look, Answered, Pass, Ends, Opens
    <3>3. QED
      BY <1>1, <1>3, <3>1, <3>2, ReadsRealKept DEF files
  <2>6. ASSUME RequestWrite(x) PROVE Goal
    BY <1>1, <1>3, <2>6, ReadsRealKept DEF RequestWrite, Sends, files
  <2>7. ASSUME OpenShadow(x) PROVE Goal
    <3>1. UNCHANGED <<real, rule>>
      BY <2>7 DEF OpenShadow
    <3>2. \A p \in Paths : shadow'[p] = NoFile => shadow[p] = NoFile
      BY <2>7, NoFileAssumption DEF OpenShadow, TypeInv, FilesType
    <3>3. Update(x, Idle) \/ Update(x, Opened(call[x], "shadow"))
      BY <2>7 DEF OpenShadow, Ends, Opens
    <3>4. QED
      BY <1>1, <1>3, <3>1, <3>2, <3>3, ReadsRealKept
  <2>8. ~OpenRaw(x) /\ ~OpenBlind(x)
    BY <1>1, <1>4 DEF OpenRaw, OpenBlind, ReadsReal
  <2>9. QED
    BY <1>5, <2>1, <2>2, <2>3, <2>4, <2>5, <2>6, <2>7, <2>8 DEF OpenStep
<1>6. ASSUME HandleStep(x) PROVE Goal
  <2>1. ASSUME Write(x) PROVE Goal
    <3>1. call[x].on # "real"
      BY <1>1, <2>1 DEF Write, ReadsReal
    <3>2. UNCHANGED <<real, rule, call>>
      BY <2>1, <3>1 DEF Write
    <3>3. \A p \in Paths : shadow'[p] = NoFile => shadow[p] = NoFile
      BY <2>1, <3>1, NoFileAssumption DEF Write, TypeInv, FilesType
    <3>4. QED
      BY <1>1, <3>2, <3>3
  <2>2. ASSUME Close(x) PROVE Goal
    BY <1>3, <2>2, ReadsRealKept DEF Close, Ends, files
  <2>3. ASSUME NEW op \in {"delete", "rename"}, NEW q \in scene.paths \union {NoPath},
               op = "rename" => q \in Paths, SetInformation(x, op, q)
        PROVE  Goal
    <3>1. q \in Paths \union {NoPath}
      BY <1>4
    <3>2. PICK c \in Calls :
              /\ c.path = call[x].path /\ c.target = q /\ c.way # "raw"
              /\ SetSends(x, c) \/ SetPasses(x, c)
      BY <2>3, <3>1, SetInformationBegins
    <3>3. SetSends(x, c)
      BY <1>1, <1>4, <3>2 DEF SetPasses
    <3>4. ReadsReal(Sent(c, "query"))
      <4>1. /\ Sent(c, "query").pc # "open" /\ Sent(c, "query").path = call[x].path
            /\ Sent(c, "query").target = q /\ Sent(c, "query").way # "raw"
        BY <3>2 DEF Sent, Calls
      <4>2. QED
        BY <1>1, <1>4, <4>1, PathsAssumption DEF ReadsReal
    <3>5. UNCHANGED rule
      BY <2>3, <3>1, SetInformationBegins
    <3>6. QED
      BY <1>3, <3>3, <3>4, <3>5 DEF SetSends, files
  <2>4. ~SetPassthrough(x)
    BY <1>2 DEF SetPassthrough, Answered
  <2>5. ASSUME Record(x) PROVE Goal
    <3>1. PICK msg \in {"target", "request"} : Update(x, Sent(call[x], msg))
      BY <2>5 DEF Record, Sends
    <3>2. UNCHANGED <<files, rule>>
      BY <2>5 DEF Record
    <3>3. QED
      BY <1>1, <1>3, <3>1, <3>2, ReadsRealKept DEF files
  <2>6. ASSUME Recorded(x) PROVE Goal
    BY <1>3, <2>6, ReadsRealKept DEF Recorded, Ends, files
  <2>7. QED
    BY <1>4, <1>6, <2>1, <2>2, <2>3, <2>4, <2>5, <2>6 DEF HandleStep
<1>7. ASSUME PortStep(x) PROVE Goal
  <2>1. PICK c : /\ Update(x, c)
                 /\ \/ c = [call[x] EXCEPT !.pc = "served"]
                    \/ c = [call[x] EXCEPT !.pc = "answered", !.answer = "error"]
                    \/ c = [call[x] EXCEPT !.pc = "answered", !.answer = "timeout"]
    BY <1>7 DEF PortStep, Receive, TimeOut
  <2>2. ReadsReal(c)
    BY <1>1, <2>1 DEF ReadsReal, Calls
  <2>3. UNCHANGED <<files, rule>>
    BY <1>7 DEF PortStep, Receive, TimeOut
  <2>4. QED
    BY <1>3, <2>1, <2>2, <2>3 DEF files
<1>8. QED
  BY <1>5, <1>6, <1>7

\* Where nothing goes around the overlay only requests are served.
LEMMA EnclosedServes ==
    ASSUME Enclosed, TypeInv, EnclosedInv, ServiceStep
    PROVE  /\ UNCHANGED <<scene, rule, real>>
           /\ ServeQuery \/ ServeCopyOnWrite \/ ServeDelete \/ ServeRename \/ FailRequest
<1>1. trouble \intersect {"pause", "push", "stop"} = {}
  BY EnclosedScene
<1>2. ServeQuery \/ ServeCopyOnWrite \/ ServeDelete \/ ServeRename \/ FailRequest
  BY <1>1 DEF ServiceStep, SetEnabled, Repush, ClearRule, SetRule, Stop, Start, EnclosedInv, Connected
<1>3. QED
  BY <1>2 DEF ServeQuery, ServeCopyOnWrite, ServeDelete, ServeRename, FailRequest, files

\* No request gives a path a second file that is renamed to it.
LEMMA OneOriginKept ==
    ASSUME TypeInv, OneOrigin,
           ServeQuery \/ ServeCopyOnWrite \/ ServeDelete \/ ServeRename \/ FailRequest
    PROVE  OneOrigin'
<1> USE NamesAssumption DEF OneOrigin
<1>1. record \in [Paths -> {"none", "created", "modified", "tombstone"} \union Paths]
  BY DEF TypeInv, FilesType
<1>2. ASSUME NEW p \in Paths, NEW state \in {"none", "created", "modified", "tombstone"},
             record' = [record EXCEPT ![p] = state]
      PROVE  OneOrigin'
  BY <1>1, <1>2
<1>3. CASE UNCHANGED record
  BY <1>3
<1>4. CASE ServeCopyOnWrite
  <2>1. serving.path \in Paths
    BY <1>4 DEF ServeCopyOnWrite, TypeInv, ServingType
  <2>2. \/ UNCHANGED record
        \/ record' = [record EXCEPT ![serving.path] = "modified"]
        \/ record' = [record EXCEPT ![serving.path] = "created"]
    BY <1>4 DEF ServeCopyOnWrite, RecordsIf, Prepares
  <2>3. QED
    BY <1>2, <1>3, <2>1, <2>2
<1>5. CASE ServeDelete
  <2>1. serving.path \in Paths
    BY <1>5 DEF ServeDelete, TypeInv, ServingType
  <2>2. UNCHANGED record \/ record' = [record EXCEPT ![serving.path] = "tombstone"]
    BY <1>5 DEF ServeDelete, RecordsIf
  <2>3. QED
    BY <1>2, <1>3, <2>1, <2>2
<1>6. CASE ServeRename
  <2> DEFINE p == serving.path
             q == serving.target
  <2>1. p \in Paths /\ q \in Paths
    BY <1>6 DEF ServeRename, TypeInv, ServingType
  <2>2. \A r \in Paths : record[r] # q
    BY <1>6, <2>1 DEF ServeRename, RenameAllowed, RenamedInto
  <2>3. \/ UNCHANGED record
        \/ record' = [record EXCEPT ![p] = "none", ![q] = "created"]
        \/ record' = [record EXCEPT ![p] = q]
    BY <1>6 DEF ServeRename, RecordsIf
  <2>4. CASE record' = [record EXCEPT ![p] = "none", ![q] = "created"]
    BY <1>1, <2>1, <2>4
  <2>5. CASE record' = [record EXCEPT ![p] = q]
    BY <1>1, <2>1, <2>2, <2>5
  <2>6. QED
    BY <1>3, <2>3, <2>4, <2>5
<1>7. QED
  BY <1>3, <1>4, <1>5, <1>6 DEF ServeQuery, FailRequest, files

\* The files and the record of p still show what a query of p left.
Settled(p) == ~Hidden(p) /\ ~LacksShadow(p)

\* A request for other files, or for the same that an open holds, leaves it so.
LEMMA SettledKept ==
    ASSUME TypeInv, OneOrigin, NEW p \in Paths, Settled(p), UNCHANGED real,
           ServeQuery \/ ServeCopyOnWrite \/ ServeDelete \/ ServeRename \/ FailRequest,
           ServeDelete \/ ServeRename => p # serving.path
    PROVE  Settled(p)'
<1> USE NamesAssumption
<1>1. /\ record \in [Paths -> {"none", "created", "modified", "tombstone"} \union Paths]
      /\ shadow \in [Paths -> Files]
  BY DEF TypeInv, FilesType
<1>2. ASSUME \A r \in Paths : \/ record'[r] \in {record[r], "none", "created", "modified"}
                              \/ r # p /\ record'[r] = "tombstone",
             shadow'[p] = NoFile => shadow[p] = NoFile
      PROVE  Settled(p)'
  <2>1. ~Hidden(p)'
    BY <1>2 DEF Hidden, Settled
  <2>2. \A r \in RenamedInto(p)' : r \in RenamedInto(p)
    BY <1>2 DEF RenamedInto
  <2>3. QED
    BY <1>2, <2>1, <2>2 DEF Settled, LacksShadow
<1>3. CASE ServeQuery
  <2>1. \A r \in Paths : LacksShadow(r) => real[Origin(r)] # NoFile
    <3>1. ASSUME NEW r \in Paths, LacksShadow(r) PROVE real[Origin(r)] # NoFile
      <4>1. PICK o \in RenamedInto(r) : real[o] # NoFile
        BY <3>1 DEF LacksShadow
      <4>2. Origin(r) \in RenamedInto(r)
        BY <4>1 DEF Origin
      <4>3. Origin(r) = o
        BY <4>1, <4>2 DEF OneOrigin, RenamedInto
      <4>4. QED
        BY <4>1, <4>3
    <3>2. QED
      BY <3>1
  <2>2. shadow'[p] = NoFile => shadow[p] = NoFile
    BY <1>1, <1>3, <2>1 DEF ServeQuery
  <2>3. QED
    BY <1>2, <1>3, <2>2 DEF ServeQuery
<1>4. CASE ServeCopyOnWrite
  <2>1. serving.path \in Paths
    BY <1>4 DEF ServeCopyOnWrite, TypeInv, ServingType
  <2>2. shadow'[p] = NoFile => shadow[p] = NoFile
    BY <1>1, <1>4, <2>1 DEF ServeCopyOnWrite, Prepared
  <2>3. \A r \in Paths : record'[r] \in {record[r], "created", "modified"}
    BY <1>1, <1>4 DEF ServeCopyOnWrite, RecordsIf, Prepares
  <2>4. QED
    BY <1>2, <2>2, <2>3
<1>5. CASE ServeDelete
  <2>1. p # serving.path /\ shadow'[p] = shadow[p]
    BY <1>1, <1>5 DEF ServeDelete
  <2>2. UNCHANGED record \/ record' = [record EXCEPT ![serving.path] = "tombstone"]
    BY <1>5 DEF ServeDelete, RecordsIf
  <2>3. QED
    BY <1>1, <1>2, <2>1, <2>2
<1>6. CASE ServeRename
  <2> DEFINE o == serving.path
             q == serving.target
  <2>1. o \in Paths /\ q \in Paths /\ p # o
    BY <1>6 DEF ServeRename, TypeInv, ServingType
  <2>2. \/ UNCHANGED record
        \/ record' = [record EXCEPT ![o] = "none", ![q] = "created"]
        \/ record' = [record EXCEPT ![o] = q]
    BY <1>6 DEF ServeRename, RecordsIf
  <2>3. Prepared(o) # NoFile /\ shadow' = [shadow EXCEPT ![o] = NoFile, ![q] = Prepared(o)]
    BY <1>6 DEF ServeRename, RenameAllowed
  <2>4. CASE p = q
    <3>1. shadow'[p] # NoFile
      BY <1>1, <2>1, <2>3, <2>4
    <3>2. record'[p] \in {record[p], "created"}
      BY <1>1, <2>1, <2>2
    <3>3. QED
      BY <3>1, <3>2 DEF Settled, Hidden, LacksShadow
  <2>5. CASE p # q
    <3>1. shadow'[p] = shadow[p] /\ record'[p] = record[p]
      BY <1>1, <2>1, <2>2, <2>3, <2>5
    <3>2. \A r \in RenamedInto(p)' : r \in RenamedInto(p)
      BY <1>1, <2>1, <2>2, <2>5 DEF RenamedInto
    <3>3. QED
      BY <3>1, <3>2 DEF Settled, Hidden, LacksShadow
  <2>6. QED
    BY <2>4, <2>5
<1>7. CASE FailRequest
  BY <1>2, <1>7 DEF FailRequest, files
<1>8. QED
  BY <1>3, <1>4, <1>5, <1>6, <1>7

\* What a request's answer makes of the call that waited for it.
LEMMA AnswerOf ==
    ASSUME TypeInv, NEW answer \in {"normal", "hidden", "passthrough", "done", "error"}, Reply(answer),
           NEW x \in Apps, call'[x] # call[x]
    PROVE  /\ IsRequestOf(call[x]) /\ call'[x].answer = answer /\ call'[x].op = call[x].op
           /\ call'[x].msg = call[x].msg /\ call'[x].path = call[x].path
           /\ call'[x].target = call[x].target /\ call'[x].pc = "answered"
           /\ call'[x].way = call[x].way
<1>1. /\ IsRequestOf(call[x])
      /\ call'[x] = [call[x] EXCEPT !.pc = "answered", !.answer = answer, !.seen = call'[x].seen]
  BY ReplyType
<1>2. call[x] \in Calls
  BY DEF TypeInv, CallsType
<1>3. QED
  BY <1>1, <1>2 DEF Calls

\* A query that is answered normally leaves its path settled.
LEMMA QueryIsSettled ==
    ASSUME TypeInv, OneOrigin, ServeQuery, NEW x \in Apps, call'[x] # call[x],
           call'[x].answer = "normal", NEW p, p = serving.path
    PROVE  Settled(p)'
<1>1. p \notin Links /\ ~Hidden(p)
  BY AnswerOf DEF ServeQuery
<1>2. /\ shadow' = [shadow EXCEPT ![p] = IF LacksShadow(p) THEN real[Origin(p)] ELSE @]
      /\ UNCHANGED <<real, record>>
  BY <1>1 DEF ServeQuery
<1>3. p \in Paths /\ shadow \in [Paths -> Files]
  BY DEF ServeQuery, TypeInv, ServingType, FilesType
<1>4. ASSUME LacksShadow(p) PROVE real[Origin(p)] # NoFile
  <2>1. PICK o \in RenamedInto(p) : real[o] # NoFile
    BY <1>4 DEF LacksShadow
  <2>2. Origin(p) \in RenamedInto(p)
    BY <2>1 DEF Origin
  <2>3. Origin(p) = o
    BY <1>3, <2>1, <2>2 DEF OneOrigin, RenamedInto
  <2>4. QED
    BY <2>1, <2>3
<1>5. \A r \in Paths : record'[r] = record[r] /\ real'[r] = real[r]
  BY <1>2
<1>6. ~Hidden(p)' /\ RenamedInto(p)' = RenamedInto(p)
  BY <1>1, <1>2 DEF Hidden, RenamedInto
<1>7. ~LacksShadow(p)'
  <2>1. CASE LacksShadow(p)
    <3>1. shadow'[p] # NoFile
      BY <1>2, <1>3, <1>4, <2>1
    <3>2. QED
      BY <3>1 DEF LacksShadow
  <2>2. CASE ~LacksShadow(p)
    <3>1. shadow'[p] = shadow[p]
      BY <1>2, <1>3, <2>2
    <3>2. QED
      BY <1>2, <1>5, <1>6, <2>2, <3>1 DEF LacksShadow
  <2>3. QED
    BY <2>1, <2>2
<1>8. QED
  BY <1>6, <1>7 DEF Settled

\* Where nothing goes around the overlay, a path that was queried stays settled.
LEMMA EnclosedNext ==
    ASSUME Enclosed
    PROVE  TypeInv /\ LeaveInv /\ EnclosedInv /\ [Next]_vars => EnclosedInv'
<1> SUFFICES ASSUME TypeInv, LeaveInv, EnclosedInv, [Next]_vars
             PROVE  EnclosedInv'
  OBVIOUS
<1>1. CASE UNCHANGED vars
  BY <1>1 DEF EnclosedInv, vars, Connected, OneOrigin, ReadsReal, ReadInv, trouble, Answered, Hidden,
              LacksShadow, RenamedInto
<1>2. ASSUME NEW y \in Apps, OpenStep(y) \/ HandleStep(y) \/ PortStep(y)
      PROVE  EnclosedInv'
  <2>1. /\ UNCHANGED <<real, rule>> /\ ReadsReal(call'[y])
        /\ \A p \in Paths : shadow'[p] = NoFile => shadow[p] = NoFile
    BY <1>2, EnclosedAppStep
  <2>2. /\ UNCHANGED <<scene, record>> /\ \A x \in Apps \ {y} : call'[x] = call[x]
        /\ call'[y] = call[y] \/ Unanswered(call'[y])
    BY <1>2, AppStepEffect
  <2>3. Connected' /\ OneOrigin' /\ \A x \in Apps : ReadsReal(call'[x])
    BY <2>1, <2>2 DEF EnclosedInv, Connected, OneOrigin, rule
  <2>4. ReadInv'
    <3> SUFFICES ASSUME "race" \notin trouble', NEW x \in Apps, NEW op \in {"read", "look"},
                        Answered(x, op, "query")', call'[x].answer = "normal",
                        NEW p, p = call'[x].path
                 PROVE  ~Hidden(p)' /\ ~LacksShadow(p)'
      BY DEF ReadInv, Hidden, LacksShadow, RenamedInto
    <3>1. call'[x] = call[x]
      BY <2>2 DEF Unanswered, Answered
    <3>2. Answered(x, op, "query") /\ call[x].answer = "normal" /\ "race" \notin trouble
      BY <2>2, <3>1 DEF Answered, trouble
    <3>3. ~Hidden(p) /\ ~LacksShadow(p) /\ p \in Paths
      BY <3>1, <3>2, PendingCall DEF EnclosedInv, ReadInv, Answered
    <3>4. QED
      BY <2>1, <2>2, <3>1, <3>3 DEF Hidden, LacksShadow, RenamedInto
  <2>5. QED
    BY <2>3, <2>4 DEF EnclosedInv
<1>3. ASSUME ServiceStep PROVE EnclosedInv'
  <2>1. /\ UNCHANGED <<scene, rule, real>>
        /\ ServeQuery \/ ServeCopyOnWrite \/ ServeDelete \/ ServeRename \/ FailRequest
    BY <1>3, EnclosedServes
  <2>2. OneOrigin'
    BY <2>1, OneOriginKept DEF EnclosedInv
  <2>3. Connected'
    BY <2>1 DEF EnclosedInv, Connected, rule
  <2>4. PICK answer \in {"normal", "hidden", "passthrough", "done", "error"} : Reply(answer)
    BY <2>1 DEF ServeQuery, ServeCopyOnWrite, ServeDelete, ServeRename, FailRequest, RecordsIf
  <2>5. ASSUME NEW x \in Apps PROVE ReadsReal(call'[x])
    <3>1. ReadsReal(call[x])
      BY DEF EnclosedInv
    <3>2. QED
      BY <2>4, <3>1, AnswerOf DEF ReadsReal
  <2>6. ReadInv'
    <3> SUFFICES ASSUME "race" \notin trouble', NEW x \in Apps, NEW op \in {"read", "look"},
                        Answered(x, op, "query")', call'[x].answer = "normal",
                        NEW p, p = call'[x].path
                 PROVE  Settled(p)'
      BY DEF ReadInv, Settled, Hidden, LacksShadow, RenamedInto
    <3>1. "race" \notin trouble
      BY <2>1 DEF trouble
    <3>2. CASE call'[x] = call[x]
      <4>1. Answered(x, op, "query") /\ call[x].answer = "normal"
        BY <3>2 DEF Answered
      <4>2. Settled(p) /\ p \in Paths
        BY <3>1, <3>2, <4>1, PendingCall DEF EnclosedInv, ReadInv, Settled, Answered
      <4>3. ServeDelete \/ ServeRename => p # serving.path
        BY <3>1, <3>2, <4>1, OpensHoldShadow DEF ServeDelete, ServeRename, Answered, Openings
      <4>4. QED
        BY <2>1, <4>2, <4>3, SettledKept DEF EnclosedInv
    <3>3. CASE call'[x] # call[x]
      <4>1. /\ IsRequestOf(call[x]) /\ call'[x].msg = call[x].msg /\ call'[x].path = call[x].path
            /\ answer = "normal"
        BY <2>4, <3>3, AnswerOf
      <4>2. serving.msg = "query" /\ serving.path = p
        BY <4>1 DEF IsRequestOf, Answered
      <4>3. ~FailRequest
        BY <3>3, AnswerOf DEF FailRequest
      <4>4. ServeQuery
        BY <2>1, <4>2, <4>3 DEF ServeCopyOnWrite, ServeDelete, ServeRename
      <4>5. QED
        BY <3>3, <4>2, <4>4, QueryIsSettled DEF EnclosedInv
    <3>4. QED
      BY <3>2, <3>3
  <2>7. QED
    BY <2>2, <2>3, <2>5, <2>6 DEF EnclosedInv
<1>4. QED
  BY <1>1, <1>2, <1>3 DEF Next

\* A query's answer is acted on only by Read and Look.
LEMMA QueriedReads ==
    ASSUME TypeInv, [Next]_vars, NEW x \in Apps, NEW op \in {"read", "look"}, Answered(x, op, "query"),
           call[x].answer = "normal", call[x].way # "raw", "blind" \notin trouble, call'[x] # call[x]
    PROVE  Read(x) \/ Look(x)
<1>1. ~ServiceStep /\ ~UNCHANGED vars
  BY AnsweredCallStays DEF Answered, vars
<1>2. PICK y \in Apps : OpenStep(y) \/ HandleStep(y) \/ PortStep(y)
  BY <1>1 DEF Next
<1>3. y = x
  BY <1>2, AppStepEffect
<1>4. ~PortStep(x) /\ ~HandleStep(x)
  <2>1. ~PortStep(x)
    BY DEF PortStep, Receive, TimeOut, Answered
  <2>2. ~HandleStep(x)
    BY DEF HandleStep, Write, Close, SetInformation, SetPassthrough, Record, Recorded, Answered
  <2>3. QED
    BY <2>1, <2>2
<1>5. \A o \in Openings, p \in scene.paths : ~Open(x, o, p)
  <2>1. call[x] # Idle
    BY DEF Answered, Idle
  <2>2. QED
    BY <2>1 DEF Open
<1>6. ~(\/ OpenHidden(x) \/ OpenPassthrough(x) \/ OpenRaw(x) \/ OpenBlind(x)
        \/ RequestWrite(x) \/ OpenShadow(x))
  BY DEF OpenHidden, OpenPassthrough, OpenRaw, OpenBlind, RequestWrite, OpenShadow, Answered
<1>7. QED
  BY <1>2, <1>3, <1>4, <1>5, <1>6 DEF OpenStep

\* A call that ends, sends a message or opens a file stays in its scene.
LEMMA InSceneKept ==
    /\ InScene(Idle)
    /\ \A c \in Calls : InScene(c) /\ c.path \in scene.paths =>
           /\ \A msg \in {"query", "target", "request"} : InScene(Sent(c, msg))
           /\ \A side \in {"real", "shadow"} : c.op \in Openings => InScene(Opened(c, side))
           /\ InScene([c EXCEPT !.pc = "closing", !.msg = "none", !.answer = "none"])
<1>1. InScene(Idle)
  BY DEF InScene, Idle
<1>2. ASSUME NEW c \in Calls, InScene(c), c.path \in scene.paths, NEW d,
             d.path = c.path, d.target = c.target, d.op = c.op
      PROVE  InScene(d)
  BY <1>2 DEF InScene
<1>3. ASSUME NEW c \in Calls, NEW msg \in {"query", "target", "request"}
      PROVE  /\ Sent(c, msg).path = c.path /\ Sent(c, msg).target = c.target
             /\ Sent(c, msg).op = c.op
  BY DEF Sent, Calls
<1>4. ASSUME NEW c \in Calls, c.path \in scene.paths, c.op \in Openings, NEW side \in {"real", "shadow"}
      PROVE  InScene(Opened(c, side))
  <2>1. Opened(c, side).path = c.path /\ Opened(c, side).op = c.op
    BY DEF Opened, Idle
  <2>2. QED
    BY <1>4, <2>1 DEF InScene, Openings
<1>5. ASSUME NEW c \in Calls, NEW d, d = [c EXCEPT !.pc = "closing", !.msg = "none", !.answer = "none"]
      PROVE  d.path = c.path /\ d.target = c.target /\ d.op = c.op
  BY <1>5 DEF Calls
<1>6. ASSUME NEW c \in Calls, InScene(c), c.path \in scene.paths
      PROVE  /\ \A msg \in {"query", "target", "request"} : InScene(Sent(c, msg))
             /\ \A side \in {"real", "shadow"} : c.op \in Openings => InScene(Opened(c, side))
             /\ InScene([c EXCEPT !.pc = "closing", !.msg = "none", !.answer = "none"])
  <2>1. ASSUME NEW msg \in {"query", "target", "request"} PROVE InScene(Sent(c, msg))
    BY <1>2, <1>3, <1>6
  <2>2. ASSUME NEW side \in {"real", "shadow"}, c.op \in Openings PROVE InScene(Opened(c, side))
    BY <1>4, <1>6, <2>2
  <2>3. InScene([c EXCEPT !.pc = "closing", !.msg = "none", !.answer = "none"])
    BY <1>2, <1>5, <1>6
  <2>4. QED
    BY <2>1, <2>2, <2>3
<1>7. QED
  BY ONLY <1>1, <1>6

\* A process's step stays in its scene.
LEMMA InSceneAppStep ==
    ASSUME TypeInv, NarrowInv, NEW x \in Apps, OpenStep(x) \/ HandleStep(x) \/ PortStep(x)
    PROVE  InScene(call'[x]) /\ RequestInScene'
<1>1. call \in [Apps -> Calls] /\ call[x] \in Calls /\ InScene(call[x]) /\ UNCHANGED scene
  BY AppStepEffect DEF TypeInv, CallsType, NarrowInv
<1>2. scene.paths \subseteq Paths
  BY ScenePaths DEF TypeInv
<1>3. ASSUME NEW c, Update(x, c), InScene(c) PROVE InScene(call'[x])
  BY <1>1, <1>3 DEF Update
<1>4. call[x].pc # "idle" => call[x].path \in scene.paths
  BY <1>1 DEF InScene
<1>5. ASSUME OpenStep(x) PROVE InScene(call'[x]) /\ UNCHANGED serving
  <2>1. UNCHANGED serving
    BY <1>5 DEF OpenStep, Open, OpenHidden, OpenPassthrough, OpenRaw, OpenBlind, Read, Look,
                RequestWrite, OpenShadow
  <2>2. ASSUME NEW c \in Calls, c.path \in scene.paths, c.op \in Openings, Pass(x, c)
        PROVE  InScene(call'[x])
    <3>1. Update(x, Opened(c, "real")) \/ Update(x, Idle)
      BY <2>2 DEF Pass, Ends
    <3>2. InScene(c)
      BY <2>2 DEF InScene, Openings
    <3>3. QED
      BY <1>3, <2>2, <3>1, <3>2, InSceneKept
  <2>3. ASSUME NEW op \in Openings, NEW p \in scene.paths, Open(x, op, p) PROVE InScene(call'[x])
    <3>1. PICK c \in Calls : /\ c.path = p /\ c.op = op
                             /\ OpenSends(x, c) \/ OpenPasses(x, c)
      BY <1>2, <2>3, OpenBegins
    <3>2. InScene(c)
      BY <3>1 DEF InScene, Openings
    <3>3. QED
      BY <1>3, <2>2, <3>1, <3>2, InSceneKept DEF OpenSends, OpenPasses
  <2>4. ASSUME call[x].pc = "answered", call[x].op \in Openings,
               \/ Pass(x, call[x]) \/ Update(x, Idle) \/ Update(x, Sent(call[x], "request"))
               \/ \E side \in {"real", "shadow"} : Update(x, Opened(call[x], side))
        PROVE  InScene(call'[x])
    BY <1>1, <1>3, <1>4, <2>2, <2>4, InSceneKept
  <2>5. CASE OpenHidden(x) \/ OpenPassthrough(x) \/ Read(x) \/ Look(x) \/ RequestWrite(x) \/ OpenShadow(x)
    BY <2>4, <2>5 DEF OpenHidden, OpenPassthrough, Read, Look, RequestWrite, OpenShadow, Answered,
                      Opens, Ends, Sends, Openings
  <2>6. CASE OpenRaw(x)
    BY <2>4, <2>6 DEF OpenRaw, Answered
  <2>7. ASSUME OpenBlind(x) PROVE InScene(call'[x])
    <3> DEFINE b == [call[x] EXCEPT !.way = "blind"]
    <3>1. call[x].pc = "answered" /\ call[x].op \in Openings /\ Pass(x, b)
      BY <2>7 DEF OpenBlind, Answered
    <3>2. CallOK(call[x])
      BY DEF TypeInv, CallsType
    <3>3. b \in Calls /\ b.path = call[x].path /\ b.op = call[x].op
      BY <3>2, BlindOK
    <3> HIDE DEF b
    <3>4. QED
      BY <1>4, <2>2, <3>1, <3>3
  <2>8. QED
    BY <1>5, <2>1, <2>3, <2>5, <2>6, <2>7 DEF OpenStep
<1>6. ASSUME HandleStep(x) PROVE InScene(call'[x]) /\ UNCHANGED serving
  <2>1. UNCHANGED serving
    BY <1>6 DEF HandleStep, Write, Close, SetInformation, SetPassthrough, Record, Recorded
  <2>2. ASSUME NEW c \in Calls, c.path \in scene.paths, InScene(c), Directly(x, c)
        PROVE  InScene(call'[x])
    BY <1>3, <2>2, InSceneKept DEF Directly
  <2>3. ASSUME NEW op \in {"delete", "rename"}, NEW q \in scene.paths \union {NoPath},
               op = "rename" => q \in scene.paths \ {call[x].path}, SetInformation(x, op, q)
        PROVE  InScene(call'[x])
    <3>1. q \in Paths \union {NoPath} /\ (op = "rename" => q \in Paths)
      BY <1>2, <2>3
    <3>2. PICK c \in Calls : /\ c.path = call[x].path /\ c.op = op /\ c.target = q
                             /\ SetSends(x, c) \/ SetPasses(x, c)
      BY <2>3, <3>1, SetInformationBegins
    <3>3. c.path \in scene.paths
      BY <1>4, <2>3, <3>2 DEF SetInformation
    <3>4. InScene(c)
      BY <2>3, <3>2, <3>3 DEF InScene
    <3>5. QED
      BY <1>3, <2>2, <3>2, <3>3, <3>4, InSceneKept DEF SetSends, SetPasses
  <2>4. CASE Write(x)
    BY <1>1, <2>4 DEF Write
  <2>5. CASE Close(x) \/ Recorded(x)
    BY <1>3, <2>5, InSceneKept DEF Close, Recorded, Ends
  <2>6. CASE SetPassthrough(x)
    BY <1>1, <1>3, <1>4, <2>2, <2>6, InSceneKept DEF SetPassthrough, Answered, Ends
  <2>7. CASE Record(x)
    <3>1. PICK msg \in {"target", "request"} : Update(x, Sent(call[x], msg))
      BY <2>7 DEF Record, Sends
    <3>2. call[x].pc = "answered"
      BY <2>7 DEF Record, Answered
    <3>3. InScene(Sent(call[x], msg))
      BY <1>1, <1>4, <3>2, InSceneKept
    <3>4. QED
      BY <1>3, <2>1, <3>1, <3>3
  <2>8. QED
    BY <1>6, <2>1, <2>3, <2>4, <2>5, <2>6, <2>7 DEF HandleStep
<1>7. ASSUME PortStep(x) PROVE InScene(call'[x]) /\ RequestInScene'
  <2>1. PICK c : /\ Update(x, c)
                 /\ \/ c = [call[x] EXCEPT !.pc = "served"]
                    \/ c = [call[x] EXCEPT !.pc = "answered", !.answer = "error"]
                    \/ c = [call[x] EXCEPT !.pc = "answered", !.answer = "timeout"]
    BY <1>7 DEF PortStep, Receive, TimeOut
  <2>2. call[x].pc # "idle"
    BY <1>7 DEF PortStep, Receive, TimeOut
  <2>3. InScene(c)
    BY <1>1, <1>4, <2>1, <2>2 DEF InScene, Calls
  <2>4. RequestInScene'
    <3>1. CASE Receive(x)
      <4>1. \/ UNCHANGED serving
            \/ /\ serving'.op = call[x].op /\ serving'.msg = call[x].msg
               /\ serving'.target = call[x].target
               /\ call[x].msg = "request" => serving'.path = call[x].path
        BY <3>1 DEF Receive
      <4>2. QED
        BY <1>1, <1>4, <2>2, <4>1 DEF NarrowInv, RequestInScene, InScene
    <3>2. CASE TimeOut(x)
      <4>1. /\ serving'.op = serving.op /\ serving'.msg = serving.msg
            /\ serving'.target = serving.target /\ serving'.path = serving.path
        BY <3>2 DEF TimeOut, TypeInv, ServingType, Requests
      <4>2. QED
        BY <1>1, <4>1 DEF NarrowInv, RequestInScene
    <3>3. QED
      BY <1>7, <3>1, <3>2 DEF PortStep
  <2>5. QED
    BY <1>3, <2>1, <2>3, <2>4
<1>8. QED
  BY <1>1, <1>5, <1>6, <1>7 DEF NarrowInv, RequestInScene

\* No request of a narrow scene renames anything, or hides a path that an open awaits.
LEMMA NarrowServes ==
    ASSUME Narrow, TypeInv, NarrowInv,
           ServeQuery \/ ServeCopyOnWrite \/ ServeDelete \/ ServeRename \/ FailRequest
    PROVE  /\ ~ServeRename
           /\ \A p \in Paths : record'[p] \in {record[p], "created", "modified", "tombstone"}
           /\ \A p \in Paths : ~Hidden(p) /\ Hidden(p)' => ServeDelete /\ p = serving.path
<1>1. /\ record \in [Paths -> {"none", "created", "modified", "tombstone"} \union Paths]
      /\ serving.msg # "none" => serving.path \in Paths
  BY DEF TypeInv, FilesType, ServingType
<1>2. ~ServeRename
  BY DEF ServeRename, RenameAllowed, NarrowInv, RequestInScene, Narrow, NarrowIn
<1>3. ASSUME UNCHANGED record PROVE \A p \in Paths : record'[p] = record[p] /\ Hidden(p)' = Hidden(p)
  BY <1>3 DEF Hidden
<1>4. CASE ServeQuery \/ FailRequest
  BY <1>2, <1>3, <1>4 DEF ServeQuery, FailRequest, files
<1>5. CASE ServeCopyOnWrite
  <2>1. \A p \in Paths : record'[p] \in {record[p], "created", "modified"}
    BY <1>1, <1>5 DEF ServeCopyOnWrite, RecordsIf, Prepares
  <2>2. QED
    BY <1>2, <2>1, NamesAssumption DEF Hidden
<1>6. CASE ServeDelete
  <2>1. UNCHANGED record \/ record' = [record EXCEPT ![serving.path] = "tombstone"]
    BY <1>6 DEF ServeDelete, RecordsIf
  <2>2. \A p \in Paths : /\ record'[p] \in {record[p], "tombstone"}
                         /\ p # serving.path => record'[p] = record[p]
    BY <1>1, <2>1
  <2>3. QED
    BY <1>2, <1>6, <2>2 DEF Hidden
<1>7. QED
  BY <1>2, <1>4, <1>5, <1>6

\* A step of the service or of the rule leaves the calls and the request in the scene.
LEMMA InSceneServiceStep ==
    ASSUME TypeInv, NarrowInv, ServiceStep
    PROVE  (\A x \in Apps : InScene(call'[x])) /\ RequestInScene'
<1>1. \A x \in Apps : InScene(call[x]) /\ call[x] \in Calls
  BY DEF NarrowInv, TypeInv, CallsType
<1>2. scene' = scene
  BY SceneStays DEF Next
<1>3. ASSUME NEW answer \in {"normal", "hidden", "passthrough", "done", "error"}, Reply(answer)
      PROVE  (\A x \in Apps : InScene(call'[x])) /\ RequestInScene'
  <2>1. ASSUME NEW x \in Apps PROVE InScene(call'[x])
    <3>1. CASE call'[x] = call[x]
      BY <1>1, <3>1
    <3>2. CASE call'[x] # call[x]
      <4>1. /\ call[x].pc = "served" /\ call'[x].op = call[x].op
            /\ call'[x].path = call[x].path /\ call'[x].target = call[x].target
        BY <1>3, <3>2, AnswerOf DEF IsRequestOf
      <4>2. QED
        BY <1>1, <4>1 DEF InScene
    <3>3. QED
      BY <3>1, <3>2
  <2>2. serving'.op = "none"
    BY <1>3 DEF Reply, NoRequest
  <2>3. QED
    BY <2>1, <2>2 DEF RequestInScene
<1>4. CASE Stop
  <2>1. ASSUME NEW x \in Apps PROVE InScene(call'[x])
    <3>1. \/ call'[x] = call[x]
          \/ /\ call[x].pc \in {"sent", "served"}
             /\ call'[x] = [call[x] EXCEPT !.pc = "answered", !.answer = "error"]
      BY <1>4 DEF Stop
    <3>2. QED
      BY <1>1, <3>1 DEF InScene, Calls
  <2>2. \/ serving'.op = "none"
        \/ /\ serving'.op = serving.op /\ serving'.msg = serving.msg
           /\ serving'.path = serving.path /\ serving'.target = serving.target
    <3>1. serving' = NoRequest \/ serving' = [serving EXCEPT !.waits = FALSE]
      BY <1>4 DEF Stop
    <3>2. serving \in Requests
      BY DEF TypeInv, ServingType
    <3>3. QED
      BY <3>1, <3>2 DEF NoRequest, Requests
  <2>3. QED
    BY <1>2, <2>1, <2>2 DEF NarrowInv, RequestInScene
<1>5. CASE UNCHANGED <<call, serving>>
  BY <1>1, <1>2, <1>5 DEF NarrowInv, RequestInScene
<1>6. QED
  BY <1>3, <1>4, <1>5
     DEF ServiceStep, ServeQuery, ServeCopyOnWrite, ServeDelete, ServeRename, FailRequest, RecordsIf,
         SetEnabled, Repush, ClearRule, SetRule, Start

\* Where there is no room for a rename, a path that was queried is not hidden before its
\* open goes on.
LEMMA NarrowNext ==
    ASSUME Narrow
    PROVE  TypeInv /\ NarrowInv /\ [Next]_vars => NarrowInv'
<1> SUFFICES ASSUME TypeInv, NarrowInv, [Next]_vars
             PROVE  NarrowInv'
  OBVIOUS
<1>1. scene' = scene /\ trouble' = trouble
  BY SceneStays
<1>2. ASSUME (\A x \in Apps : InScene(call'[x])) /\ RequestInScene',
             \A p \in Paths : record'[p] \notin Paths,
             "race" \notin trouble => \A x \in Apps, op \in {"read", "look"}, p \in Paths :
                 Answered(x, op, "query")' /\ call'[x].answer = "normal" /\ p = call'[x].path =>
                     ~Hidden(p)'
      PROVE  NarrowInv'
  <2>1. \A p \in Paths : ~LacksShadow(p)'
    BY <1>2 DEF LacksShadow, RenamedInto
  <2>2. TypeInv'
    BY NextType
  <2>3. \A x \in Apps : call'[x].pc = "answered" => call'[x].path \in Paths
    BY <2>2 DEF TypeInv, CallsType, CallOK
  <2>4. ReadInv'
    <3> SUFFICES ASSUME "race" \notin trouble', NEW x \in Apps, NEW op \in {"read", "look"},
                        Answered(x, op, "query")', call'[x].answer = "normal",
                        NEW p, p = call'[x].path
                 PROVE  ~Hidden(p)' /\ ~LacksShadow(p)'
      BY DEF ReadInv, Hidden, LacksShadow, RenamedInto
    <3>1. p \in Paths
      BY <2>3 DEF Answered
    <3>2. QED
      BY <1>1, <1>2, <2>1, <3>1
  <2>5. QED
    BY <1>1, <1>2, <2>4 DEF NarrowInv, InScene
<1>3. ASSUME NEW x \in Apps, NEW op \in {"read", "look"}, "race" \notin trouble,
             Answered(x, op, "query")', call'[x].answer = "normal", call'[x] = call[x]
      PROVE  Answered(x, op, "query") /\ ~Hidden(call[x].path) /\ call[x].path \in Paths
  BY <1>3, PendingCall DEF NarrowInv, ReadInv, Answered
<1>4. CASE UNCHANGED vars
  <2>1. UNCHANGED <<call, serving, record>>
    BY <1>4 DEF vars
  <2>2. \A p \in Paths : Hidden(p)' = Hidden(p)
    BY <2>1 DEF Hidden
  <2>3. (\A x \in Apps : InScene(call'[x])) /\ RequestInScene'
    BY <1>1, <2>1 DEF NarrowInv, RequestInScene
  <2>4. QED
    BY <1>2, <1>3, <2>1, <2>2, <2>3 DEF NarrowInv
<1>5. ASSUME NEW y \in Apps, OpenStep(y) \/ HandleStep(y) \/ PortStep(y)
      PROVE  NarrowInv'
  <2>1. /\ UNCHANGED record /\ \A x \in Apps \ {y} : call'[x] = call[x]
        /\ call'[y] = call[y] \/ Unanswered(call'[y])
    BY <1>5, AppStepEffect
  <2>2. (\A x \in Apps : InScene(call'[x])) /\ RequestInScene'
    BY <1>5, <2>1, InSceneAppStep DEF NarrowInv
  <2>3. \A p \in Paths : Hidden(p)' = Hidden(p)
    BY <2>1 DEF Hidden
  <2>4. ASSUME NEW x \in Apps, NEW op \in {"read", "look"}, "race" \notin trouble,
               Answered(x, op, "query")', call'[x].answer = "normal",
               NEW p \in Paths, p = call'[x].path
        PROVE  ~Hidden(p)'
    <3>1. call'[x] = call[x]
      BY <2>1, <2>4 DEF Unanswered, Answered
    <3>2. QED
      BY <1>3, <2>3, <2>4, <3>1
  <2>5. QED
    BY <1>2, <2>1, <2>2, <2>4 DEF NarrowInv
<1>6. ASSUME ServiceStep PROVE NarrowInv'
  <2> DEFINE Serve == ServeQuery \/ ServeCopyOnWrite \/ ServeDelete \/ ServeRename \/ FailRequest
  <2>1. (\A x \in Apps : InScene(call'[x])) /\ RequestInScene'
    BY <1>6, InSceneServiceStep
  <2>2. Serve \/ UNCHANGED record
    BY <1>6 DEF ServiceStep, SetEnabled, Repush, ClearRule, SetRule, Stop, Start, files
  <2>3. \A p \in Paths : record'[p] \in {record[p], "created", "modified", "tombstone"}
    BY <2>2, NarrowServes
  <2>4. \A p \in Paths : ~Hidden(p) /\ Hidden(p)' => ServeDelete /\ p = serving.path
    BY <2>2, NarrowServes DEF Hidden
  <2>5. \A p \in Paths : record'[p] \notin Paths
    BY <2>3, NamesAssumption DEF NarrowInv
  <2>6. ASSUME NEW x \in Apps, NEW op \in {"read", "look"}, "race" \notin trouble,
               Answered(x, op, "query")', call'[x].answer = "normal",
               NEW p \in Paths, p = call'[x].path
        PROVE  ~Hidden(p)'
    <3>1. CASE call'[x] = call[x]
      <4>1. Answered(x, op, "query") /\ ~Hidden(call[x].path) /\ call[x].path \in Paths
        BY <1>3, <2>6, <3>1
      <4>2. ServeDelete => call[x].path # serving.path
        BY <2>6, <4>1, OpensHoldShadow DEF ServeDelete, Answered, Openings
      <4>3. p = call[x].path
        BY <2>6, <3>1
      <4>4. QED
        BY <2>4, <4>1, <4>2, <4>3
    <3>2. CASE call'[x] # call[x]
      <4>1. ~Stop
        <5>1. Stop => call'[x] = [call[x] EXCEPT !.pc = "answered", !.answer = "error"]
          BY <3>2 DEF Stop
        <5>2. call[x] \in Calls
          BY DEF TypeInv, CallsType
        <5>3. QED
          BY <2>6, <5>1, <5>2 DEF Calls
      <4>2. PICK answer \in {"normal", "hidden", "passthrough", "done", "error"} : Reply(answer)
        <5>1. ~UNCHANGED call
          BY <3>2
        <5>2. QED
          BY <1>6, <4>1, <5>1 DEF ServiceStep, ServeQuery, ServeCopyOnWrite, ServeDelete, ServeRename,
                            FailRequest, RecordsIf, SetEnabled, Repush, ClearRule, SetRule, Start
      <4>3. /\ IsRequestOf(call[x]) /\ call'[x].msg = call[x].msg /\ call'[x].path = call[x].path
            /\ answer = "normal"
        BY <2>6, <3>2, <4>2, AnswerOf
      <4>4. serving.msg = "query" /\ serving.path = call'[x].path
        BY <2>6, <4>3 DEF IsRequestOf, Answered
      <4>5. ServeQuery
        <5>1. ~FailRequest
          BY <2>6, <3>2, AnswerOf DEF FailRequest
        <5>2. ~(SetEnabled \/ Repush \/ ClearRule \/ SetRule \/ Start)
          BY <3>2 DEF SetEnabled, Repush, ClearRule, SetRule, Start
        <5>3. QED
          BY <1>6, <4>1, <4>4, <5>1, <5>2 DEF ServiceStep, ServeCopyOnWrite, ServeDelete, ServeRename
      <4>6. ~Hidden(serving.path) /\ UNCHANGED record
        BY <2>6, <3>2, <4>5, AnswerOf DEF ServeQuery
      <4>7. p = serving.path
        BY <2>6, <4>4
      <4>8. QED
        BY <4>6, <4>7 DEF Hidden
    <3>3. QED
      BY <3>1, <3>2
  <2>7. QED
    BY <1>2, <2>1, <2>5, <2>6
<1>7. QED
  BY <1>4, <1>5, <1>6 DEF Next

\* ReadsAreCurrent: an open for reading, or a look, gets what the overlay shows when
\* the query is answered or when the file is opened, unless it is with
\* FILE_OPEN_REPARSE_POINT.  It does on any paths where no link, no such open, no push and
\* no pause or stop lets a process reach the real files; and, whatever befalls the rule and
\* the service and whoever opens so, where at most one path is no link, so that nothing
\* is renamed.
THEOREM ReadsStayCurrent ==
    ASSUME \A s \in Scenes : EnclosedIn(s) \/ NarrowIn(s)
    PROVE  Spec => ReadsAreCurrent
<1>1. Init => LeaveInv /\ ReadingInv
  <2> SUFFICES ASSUME Init PROVE LeaveInv /\ ReadingInv
    OBVIOUS
  <2>1. Connected
    BY DEF Init, Connected
  <2>2. OneOrigin
    BY NamesAssumption DEF Init, OneOrigin
  <2>3. \A x \in Apps : call[x] = Idle
    BY DEF Init
  <2>4. ReadInv
    BY <2>3 DEF ReadInv, Answered, Idle
  <2>5. LeaveInv /\ EnclosedInv
    BY <2>1, <2>2, <2>3, <2>4, NeedsNoLeave, ReadsRealKept DEF LeaveInv, EnclosedInv
  <2>6. serving.op = "none" /\ \A p \in Paths : record[p] \notin Paths
    BY NamesAssumption DEF Init, NoRequest
  <2>7. NarrowInv
    BY <2>3, <2>4, <2>6, InSceneKept DEF NarrowInv, RequestInScene
  <2>8. Enclosed \/ Narrow
    BY DEF Init, Enclosed, Narrow
  <2>9. QED
    BY <2>5, <2>7, <2>8 DEF ReadingInv
<1>2. TypeInv /\ LeaveInv /\ [Next]_vars => LeaveInv'
  BY OpenStepIsolates, HandleStepIsolates, OtherStepsIsolate DEF Next, vars, LeaveInv
<1>3. TypeInv /\ LeaveInv /\ ReadingInv /\ [Next]_vars => ReadingInv'
  <2> SUFFICES ASSUME TypeInv, LeaveInv, ReadingInv, [Next]_vars PROVE ReadingInv'
    OBVIOUS
  <2>1. (Enclosed => Enclosed') /\ (Narrow => Narrow')
    BY SceneStays DEF Enclosed, Narrow
  <2>2. CASE Enclosed /\ EnclosedInv
    BY <2>1, <2>2, EnclosedNext DEF ReadingInv
  <2>3. CASE Narrow /\ NarrowInv
    BY <2>1, <2>3, NarrowNext DEF ReadingInv
  <2>4. QED
    BY <2>2, <2>3 DEF ReadingInv
<1>4. TypeInv /\ ReadingInv /\ [Next]_vars =>
          \A x \in Apps :
              (\E op \in {"read", "look"} : Answered(x, op, "query"))
                 /\ call[x].answer = "normal" /\ call[x].way # "raw" /\ call'[x] # call[x] =>
                  \/ {"race", "blind"} \intersect trouble # {}
                  \/ LET p == call[x].path
                         got == CASE call'[x].on = "shadow" -> shadow[p]
                                  [] call'[x].on = "real" -> real[p]
                                  [] OTHER -> NoFile
                     IN  got \in {call[x].seen, View(p)}
  <2> SUFFICES ASSUME TypeInv, ReadingInv, [Next]_vars, NEW x \in Apps,
                      NEW op \in {"read", "look"}, Answered(x, op, "query"),
                      call[x].answer = "normal", call[x].way # "raw", call'[x] # call[x],
                      "race" \notin trouble, "blind" \notin trouble
               PROVE  LET p == call[x].path
                          got == CASE call'[x].on = "shadow" -> shadow[p]
                                   [] call'[x].on = "real" -> real[p]
                                   [] OTHER -> NoFile
                      IN  got = View(p)
    OBVIOUS
  <2> DEFINE p == call[x].path
  <2>1. ~Hidden(p) /\ ~LacksShadow(p)
    BY DEF ReadingInv, EnclosedInv, NarrowInv, ReadInv
  <2>2. View(p) = IF shadow[p] # NoFile THEN shadow[p] ELSE real[p]
    BY <2>1 DEF View
  <2>3. call \in [Apps -> Calls]
    BY DEF TypeInv, CallsType
  <2>4. \/ Update(x, Opened(call[x], "shadow")) /\ shadow[p] # NoFile
        \/ Update(x, Opened(call[x], "real")) /\ shadow[p] = NoFile
        \/ Update(x, Idle) /\ shadow[p] = NoFile /\ real[p] = NoFile
    <3>1. CASE Read(x)
      BY <3>1 DEF Read, Opens, Ends
    <3>2. CASE Look(x)
      BY <3>2 DEF Look, Answered, Pass, Opens, Ends
    <3>3. QED
      BY <3>1, <3>2, QueriedReads
  <2>5. /\ Opened(call[x], "shadow").on = "shadow" /\ Opened(call[x], "real").on = "real"
        /\ Idle.on = "none"
    BY DEF Opened, Idle
  <2>6. CASE Update(x, Opened(call[x], "shadow")) /\ shadow[p] # NoFile
    <3>1. call'[x].on = "shadow"
      BY <2>3, <2>5, <2>6 DEF Update
    <3>2. QED
      BY <2>2, <2>6, <3>1
  <2>7. CASE Update(x, Opened(call[x], "real")) /\ shadow[p] = NoFile
    <3>1. call'[x].on = "real"
      BY <2>3, <2>5, <2>7 DEF Update
    <3>2. QED
      BY <2>2, <2>7, <3>1
  <2>8. CASE Update(x, Idle) /\ shadow[p] = NoFile /\ real[p] = NoFile
    <3>1. call'[x].on = "none"
      BY <2>3, <2>5, <2>8 DEF Update
    <3>2. QED
      BY <2>2, <2>8, <3>1
  <2>9. QED
    BY <2>4, <2>6, <2>7, <2>8
<1>5. QED
  BY <1>1, <1>2, <1>3, <1>4, InitType, NextType, PTL DEF Spec, ReadsAreCurrent

=============================================================================

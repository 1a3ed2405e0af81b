------------------------- MODULE CapsicumShimProofs -------------------------
(***************************************************************************)
(* Proofs about CapsicumShim, for any descriptors, directories, rights,    *)
(* command lists and table sizes, and for runs of any length.  First the   *)
(* registry and the stack of layers, then what the programs of a layer     *)
(* answer (from the lemmas of BpfFilterProofs about single programs), last *)
(* what the whole stack answers to a call inside the sandbox.              *)
(***************************************************************************)
EXTENDS CapsicumShim, BpfFilterProofs

\* One step of OnlyTightens.
Tightens ==
    entered => /\ entered' /\ mode' = mode /\ landlock' = landlock
               /\ IsPrefix(filters, filters')

IInv == TypeOK /\ AllOrNothing /\ RegistryFaithful

\* The allowlists a layer may hold.
Lists == (SUBSET (IoctlCmds \cup FcntlCmds)) \cup {Unrestricted}

\* What the programs of a stack decide, by the layers they are assembled from:
\* an "args" layer stops the commands not on the fd's list, a "deny" layer the
\* classes of its fds.
Allowed(list, c) == list = Unrestricted \/ c \in list
Passes(layer, nr, fd, c) ==
    layer.kind = "args" /\ layer.nr = nr /\ fd \in Range(layer.order)
        => Allowed(layer.lists[fd], c)
Stops(layer, fd, c) ==
    layer.kind = "deny" /\ fd \in Range(layer.order) /\ c \in layer.deny[fd]
AllPass(s, nr, fd, c) == \A i \in 1..Len(s) : Passes(s[i], nr, fd, c)
AnyStops(s, fd, c) == \E i \in 1..Len(s) : Stops(s[i], fd, c)

\* Inside the sandbox the layers in force add up to what all limit calls, from
\* before and after entering, asked for: no more, and but for cut lists no less.
LayersFaithful ==
    tool = "running" /\ entered =>
        \A fd \in Fds :
           /\ \A c \in IoctlCmds :
                /\ AllPass(filters, SYS_ioctl, fd, c) => Allowed(asked[fd].ioctls, c)
                /\ fd \notin cut /\ Allowed(asked[fd].ioctls, c)
                     => AllPass(filters, SYS_ioctl, fd, c)
           /\ \A c \in FcntlCmds :
                AllPass(filters, SYS_fcntl, fd, c) <=> Allowed(asked[fd].fcntls, c)
           /\ \A c \in Classes : AnyStops(filters, fd, c) <=> c \in asked[fd].deny

\* What a cut list allows was asked for.
CutNarrows ==
    tool = "running" /\ ~entered =>
        \A fd \in Fds, c \in IoctlCmds :
           Allowed(limit[fd].ioctls, c) => Allowed(asked[fd].ioctls, c)

Layered == LayersFaithful /\ CutNarrows

\* Until the tool enters: lookup_fds[] holds numbers that received CAP_LOOKUP,
\* all of them unless it is full, and a directory open under such a number is
\* the one that received it unless the number was reused.
LookupFaithful ==
    tool = "running" /\ ~entered =>
        /\ Range(lookup) \subseteq LookupNumbers
        /\ Len(lookup) < LOOKUP_MAX => LookupNumbers \subseteq Range(lookup)
        /\ \A u \in reused : u.fd \in Range(lookup)
        /\ \A f \in Range(lookup) : fds[f].kind = "dir" =>
             \/ [fd |-> f, at |-> fds[f].at] \in reused
             \/ [fd |-> f, at |-> fds[f].at] \in Kept
        /\ \A l \in Kept :
             l.fd \in Range(lookup) /\ fds[l.fd].kind = "dir" => fds[l.fd].at = l.at

\* Inside the sandbox Landlock and the descriptors of the namespace program
\* cover what the mode promises: the CAP_LOOKUP directories, the allowed paths,
\* or reading anywhere.
DomainFaithful ==
    tool = "running" /\ entered =>
        /\ mode = MODE_FULL =>
             /\ landlock.handled = {"mutate", "read"}
             /\ landlock.beneath \subseteq PlacesOf(Kept \cup reused)
             /\ Range(lookup) \subseteq LookupNumbers
             /\ \A l \in Kept : l.fd \in Range(lookup) => l.at \in landlock.beneath
        /\ mode = MODE_PATHS =>
             landlock = [handled |-> {"mutate", "read"}, beneath |-> Range(allow)]
        /\ mode = MODE_CASPER => landlock = [handled |-> {"mutate"}, beneath |-> {}]

Confined == LookupFaithful /\ DomainFaithful

-----------------------------------------------------------------------------
(* Registry entries.                                                       *)

\* The merged allowlists are lists again, and never wider than either.
LEMMA MergeType ==
    ASSUME NEW Cmds, NEW dst \in (SUBSET Cmds) \cup {Unrestricted},
           NEW src \in SUBSET Cmds
    PROVE  /\ lim_merge(dst, src) \in SUBSET Cmds
           /\ Narrow(dst, src) = lim_merge(dst, src)
<1>1. CASE dst = Unrestricted
  BY <1>1 DEF lim_merge, Narrow
<1>2. CASE dst # Unrestricted
  BY <1>2 DEF lim_merge, Narrow
<1> QED BY <1>1, <1>2

\* What caph_rights_limit makes of an entry is an entry, and it follows the
\* request as AskRights records it.
LEMMA LimitRightsType ==
    ASSUME NEW l \in Limits, NEW r
    PROVE  /\ LimitRights(l, r) \in Limits
           /\ LimitRights(l, r).deny = l.deny \cup DeniedClasses(r)
           /\ LimitRights(l, r).ioctls =
                IF "IOCTL" \in r THEN l.ioctls ELSE Narrow(l.ioctls, SafeIoctls)
           /\ LimitRights(l, r).fcntls =
                IF "FCNTL" \in r THEN l.fcntls ELSE Narrow(l.fcntls, safe_fcntls)
<1>1. /\ l.deny \in SUBSET Classes
      /\ l.ioctls \in (SUBSET IoctlCmds) \cup {Unrestricted}
      /\ l.fcntls \in (SUBSET FcntlCmds) \cup {Unrestricted}
  BY DEF Limits
<1>2. SafeIoctls \in SUBSET IoctlCmds /\ safe_fcntls \in SUBSET FcntlCmds
  BY ConstantsAssumption DEF safe_fcntls, FcntlCmds
<1>3. DeniedClasses(r) \in SUBSET Classes
  BY DEF DeniedClasses
<1>4. /\ lim_merge(l.ioctls, SafeIoctls) \in SUBSET IoctlCmds
      /\ Narrow(l.ioctls, SafeIoctls) = lim_merge(l.ioctls, SafeIoctls)
  <2> DEFINE old == l.ioctls
  <2> old \in (SUBSET IoctlCmds) \cup {Unrestricted} /\ SafeIoctls \in SUBSET IoctlCmds
    BY <1>1, <1>2
  <2> HIDE DEF old
  <2> lim_merge(old, SafeIoctls) \in SUBSET IoctlCmds
      /\ Narrow(old, SafeIoctls) = lim_merge(old, SafeIoctls)
    BY MergeType
  <2> QED BY DEF old
<1>5. /\ lim_merge(l.fcntls, safe_fcntls) \in SUBSET FcntlCmds
      /\ Narrow(l.fcntls, safe_fcntls) = lim_merge(l.fcntls, safe_fcntls)
  BY <1>1, <1>2, MergeType
<1> QED BY <1>1, <1>3, <1>4, <1>5 DEF LimitRights, Limits

\* lim_find keeps the registry within its slots and each fd in it once.
LEMMA FindOrder ==
    ASSUME order \in Seq(Fds), NEW fd \in Fds, HasSlot(fd),
           Len(order) <= FD_LIMITS,
           \A i, j \in 1..Len(order) : order[i] = order[j] => i = j
    PROVE  LET o == lim_find(fd) IN
           /\ o \in Seq(Fds) /\ Len(o) <= FD_LIMITS
           /\ \A i, j \in 1..Len(o) : o[i] = o[j] => i = j
           /\ \A i \in 1..Len(order) : i \in 1..Len(o) /\ o[i] = order[i]
           /\ \E i \in 1..Len(o) : o[i] = fd
<1>0. FD_LIMITS \in Nat
  BY ConstantsAssumption
<1>1. CASE fd \in Range(order)
  <2>1. PICK i \in 1..Len(order) : order[i] = fd
    BY <1>1 DEF Range
  <2> QED BY <1>1, <2>1 DEF lim_find
<1>2. CASE fd \notin Range(order)
  <2>1. \A i \in 1..Len(order) : order[i] # fd
    BY <1>2 DEF Range
  <2>2. Len(order) < FD_LIMITS
    BY <1>2 DEF HasSlot
  <2>3. lim_find(fd) = Append(order, fd)
    BY <1>2 DEF lim_find
  <2>4. /\ Append(order, fd) \in Seq(Fds)
        /\ Len(Append(order, fd)) = Len(order) + 1
        /\ \A i \in 1..Len(order) : Append(order, fd)[i] = order[i]
        /\ Append(order, fd)[Len(order) + 1] = fd
    BY AppendProperties
  <2> QED BY <1>0, <2>1, <2>2, <2>3, <2>4
<1> QED BY <1>1, <1>2

-----------------------------------------------------------------------------
(* Layers.                                                                 *)

\* The layers the shim loads are layers.
LEMMA LayerTypes ==
    ASSUME NEW o \in Seq(Fds)
    PROVE  /\ \A d \in [Fds -> SUBSET Classes] : DenyLayer(o, d) \in Layers
           /\ \A nr \in Nat, l \in [Fds -> Lists] :
                 ArgsLayer(nr, o, l) \in Layers
           /\ \A m \in Modes : o = lookup => NsLayer(m) \in Layers
<1>1. /\ NoDeny \in [Fds -> SUBSET Classes]
      /\ NoLists \in [Fds -> Lists]
      /\ MODE_FULL \in Modes
  <2>1. MODE_FULL \in Modes
    BY DEF Modes
  <2>2. Unrestricted \in Lists
    BY DEF Lists
  <2> QED BY <2>1, <2>2 DEF NoDeny, NoLists
<1>2. \A d \in [Fds -> SUBSET Classes] : DenyLayer(o, d) \in Layers
  BY <1>1 DEF DenyLayer, Layers, Lists
<1>3. \A nr \in Nat, l \in [Fds -> Lists] :
         ArgsLayer(nr, o, l) \in Layers
  BY <1>1 DEF ArgsLayer, Layers, Lists
<1>4. \A m \in Modes : o = lookup => NsLayer(m) \in Layers
  BY <1>1 DEF NsLayer, Layers, Lists
<1> QED BY <1>2, <1>3, <1>4

\* Up to three layers in a row.
LEMMA ThreeLayers ==
    ASSUME NEW a \in Seq(Layers), NEW b \in Seq(Layers), NEW c \in Seq(Layers)
    PROVE  a \o b \o c \in Seq(Layers)
BY ConcatProperties

\* So is what flush_registered_limits makes of the registry.
LEMMA FlushType ==
    ASSUME TypeOK
    PROVE  flush_registered_limits \in Seq(Layers)
<1> DEFINE deny   == [fd \in Fds |-> limit[fd].deny]
           ioctls == [fd \in Fds |-> limit[fd].ioctls]
           fcntls == [fd \in Fds |-> limit[fd].fcntls]
<1>1. deny \in [Fds -> SUBSET Classes]
  BY DEF TypeOK, Limits
<1>2. ioctls \in [Fds -> Lists]
  BY DEF TypeOK, Limits, Lists
<1>3. fcntls \in [Fds -> Lists]
  BY DEF TypeOK, Limits, Lists
<1>4. /\ DenyLayer(order, deny) \in Layers
      /\ ArgsLayer(SYS_ioctl, order, ioctls) \in Layers
      /\ ArgsLayer(SYS_fcntl, order, fcntls) \in Layers
  <2> order \in Seq(Fds) /\ SYS_ioctl \in Nat /\ SYS_fcntl \in Nat
    BY DEF TypeOK, SYS_ioctl, SYS_fcntl
  <2> HIDE DEF deny, ioctls, fcntls
  <2> QED BY <1>1, <1>2, <1>3, LayerTypes
<1> HIDE DEF deny, ioctls, fcntls
<1> DEFINE a(P) == IF P THEN <<DenyLayer(order, deny)>> ELSE << >>
           b(P) == IF P THEN <<ArgsLayer(SYS_ioctl, order, ioctls)>> ELSE << >>
           c(P) == IF P THEN <<ArgsLayer(SYS_fcntl, order, fcntls)>> ELSE << >>
<1>5. \A P, Q, R : a(P) \in Seq(Layers) /\ b(Q) \in Seq(Layers) /\ c(R) \in Seq(Layers)
  BY <1>4
<1>6. PICK P, Q, R : flush_registered_limits = a(P) \o b(Q) \o c(R)
  BY DEF flush_registered_limits, deny, ioctls, fcntls
<1> HIDE DEF a, b, c
<1> QED BY <1>5, <1>6, ThreeLayers

\* What caph_rights_limit loads after entering are layers.
LEMMA RightsLayersType ==
    ASSUME NEW fd \in Fds, NEW r
    PROVE  RightsLayers(fd, r) \in Seq(Layers)
<1> DEFINE one(x, none) == [f \in Fds |-> IF f = fd THEN x ELSE none]
           deny   == one(DeniedClasses(r), {})
           ioctls == one(SafeIoctls, Unrestricted)
           fcntls == one(safe_fcntls, Unrestricted)
<1>1. deny \in [Fds -> SUBSET Classes]
  BY DEF DeniedClasses
<1>2. ioctls \in [Fds -> Lists]
  <2>1. SafeIoctls \in Lists /\ Unrestricted \in Lists
    BY ConstantsAssumption DEF Lists
  <2> QED BY <2>1
<1>3. fcntls \in [Fds -> Lists]
  <2>1. safe_fcntls \in Lists /\ Unrestricted \in Lists
    BY DEF safe_fcntls, FcntlCmds, Lists
  <2> QED BY <2>1
<1>4. /\ DenyLayer(<<fd>>, deny) \in Layers
      /\ ArgsLayer(SYS_ioctl, <<fd>>, ioctls) \in Layers
      /\ ArgsLayer(SYS_fcntl, <<fd>>, fcntls) \in Layers
  <2> <<fd>> \in Seq(Fds) /\ SYS_ioctl \in Nat /\ SYS_fcntl \in Nat
    BY DEF SYS_ioctl, SYS_fcntl
  <2> HIDE DEF deny, ioctls, fcntls
  <2> QED BY <1>1, <1>2, <1>3, LayerTypes
<1> HIDE DEF deny, ioctls, fcntls
<1> DEFINE a(P) == IF P THEN <<DenyLayer(<<fd>>, deny)>> ELSE << >>
           b(P) == IF P THEN <<ArgsLayer(SYS_ioctl, <<fd>>, ioctls)>> ELSE << >>
           c(P) == IF P THEN <<ArgsLayer(SYS_fcntl, <<fd>>, fcntls)>> ELSE << >>
<1>5. \A P, Q, R : a(P) \in Seq(Layers) /\ b(Q) \in Seq(Layers) /\ c(R) \in Seq(Layers)
  BY <1>4
<1>6. PICK P, Q, R : RightsLayers(fd, r) = a(P) \o b(Q) \o c(R)
  BY DEF RightsLayers, deny, ioctls, fcntls
<1> HIDE DEF a, b, c
<1> QED BY <1>5, <1>6, ThreeLayers

\* Loading only ever adds programs, and all of them unless the tool exits.
LEMMA LoadStacks ==
    ASSUME filters \in Seq(Layers), NEW l \in Seq(Layers), Load(l)
    PROVE  /\ filters' \in Seq(Layers)
           /\ IsPrefix(filters, filters')
           /\ tool' = tool \/ tool' = "exited"
           /\ tool' = "running" => filters' = filters \o l
           /\ filters # << >> => filters' # << >> /\ filters'[1] = filters[1]
<1>1. PICK done \in 0..Len(l) :
        /\ filters' = filters \o SubSeq(l, 1, done)
        /\ tool' = IF done = Len(l) THEN tool ELSE "exited"
  BY DEF Load
<1> DEFINE s == SubSeq(l, 1, done)
<1>2. s \in Seq(Layers) /\ (done = Len(l) => s = l)
  BY SubSeqProperties, SubSeqFull, LenProperties
<1>3. filters' = filters \o s
  BY <1>1
<1> HIDE DEF s
<1>4. /\ filters' \in Seq(Layers)
      /\ Len(filters') = Len(filters) + Len(s)
      /\ \A i \in 1..Len(filters) : filters'[i] = filters[i]
  BY <1>2, <1>3, ConcatProperties
<1>5. IsPrefix(filters, filters')
  <2>1. SubSeq(filters \o s, 1, Len(filters)) = filters
    BY <1>2, ConcatSimplifications, SubSeqOfConcat1, SubSeqFull
  <2>2. SubSeq(filters, 1, Len(filters)) = filters
    BY SubSeqFull
  <2>3. Len(filters) <= Len(filters')
    BY <1>2, <1>4
  <2> QED BY <1>3, <2>1, <2>2, <2>3 DEF IsPrefix
<1>6. tool' = "running" => filters' = filters \o l
  BY <1>1, <1>2, <1>3
<1>7. filters # << >> => filters' # << >> /\ filters'[1] = filters[1]
  BY <1>2, <1>4
<1> QED BY <1>1, <1>4, <1>5, <1>6, <1>7

-----------------------------------------------------------------------------
(* The three kinds of step.                                                *)

\* A step that changes neither registry nor kernel: a refused or skipped
\* call, caph_allow_path, or the tool opening and closing descriptors.
LEMMA IdleHeld ==
    ASSUME IInv, tool' \in {tool, "exited"},
           UNCHANGED <<disabled, order, limit, lookup, entered, mode, kernel, ghosts>>,
           allow' \in Seq(Dirs), fds' \in [Fds -> Descriptors], calls' \in Nat,
           reused' \subseteq [fd : Fds, at : Dirs]
    PROVE  IInv' /\ Tightens
<1>1. UNCHANGED <<disabled, order, limit, lookup, entered, mode, filters, landlock,
                  asked, cut, late, looked>>
  BY DEF kernel, ghosts
<1>2. TypeOK'
  BY <1>1 DEF IInv, TypeOK
<1>3. AllOrNothing'
  BY <1>1 DEF IInv, TypeOK, AllOrNothing, NsLayer
<1>4. RegistryFaithful'
  BY <1>1 DEF IInv, TypeOK, RegistryFaithful
<1>5. Tightens
  <2>1. IsPrefix(filters, filters)
    BY DEF IsPrefix, IInv, TypeOK
  <2> QED BY <1>1, <2>1 DEF Tightens
<1> QED BY <1>2, <1>3, <1>4, <1>5 DEF IInv

\* A call after entering: it stacks programs and leaves the rest alone.
LEMMA StackHeld ==
    ASSUME IInv, entered, tool = "running", NEW l \in Seq(Layers), Load(l),
           UNCHANGED <<disabled, shim, fds, reused, landlock>>, calls' \in Nat,
           asked' \in [Fds -> Limits], cut' \subseteq Fds,
           late' \in [Fds -> SUBSET Classes], looked' \subseteq [fd : Fds, at : Dirs]
    PROVE  IInv' /\ Tightens
<1>1. UNCHANGED <<disabled, order, limit, lookup, allow, entered, mode, fds, reused, landlock>>
  BY DEF shim
<1>2. filters \in Seq(Layers)
  BY DEF IInv, TypeOK
<1>3. /\ filters' \in Seq(Layers)
      /\ IsPrefix(filters, filters')
      /\ tool' \in {"running", "exited"}
      /\ filters # << >> => filters' # << >> /\ filters'[1] = filters[1]
  BY <1>2, LoadStacks
<1>4. TypeOK'
  BY <1>1, <1>3 DEF IInv, TypeOK
<1>5. AllOrNothing'
  <2>1. /\ ~disabled /\ filters # << >> /\ filters[1] = NsLayer(mode)
        /\ "mutate" \in landlock.handled
    BY DEF IInv, AllOrNothing
  <2>2. NsLayer(mode)' = NsLayer(mode)
    BY <1>1 DEF NsLayer
  <2> QED BY <1>1, <1>3, <2>1, <2>2 DEF AllOrNothing
<1>6. RegistryFaithful'
  BY <1>1 DEF IInv, RegistryFaithful
<1> QED BY <1>1, <1>3, <1>4, <1>5, <1>6 DEF IInv, Tightens

\* A limit call before entering: one entry of the registry changes, in step
\* with what was asked for.
LEMMA RegisterHeld ==
    ASSUME IInv, ~entered, tool = "running", NEW fd \in Fds, HasSlot(fd),
           UNCHANGED <<disabled, tool, entered, mode, allow, fds, reused, kernel>>,
           order' = lim_find(fd), lookup' \in Seq(Fds), calls' \in Nat,
           NEW l \in Limits, limit' = [limit EXCEPT ![fd] = l],
           NEW a \in Limits, asked' = [asked EXCEPT ![fd] = a],
           l.deny = a.deny, l.fcntls = a.fcntls, fd \notin cut' => l.ioctls = a.ioctls,
           cut' \subseteq Fds, cut \subseteq cut',
           late' \in [Fds -> SUBSET Classes], looked' \subseteq [fd : Fds, at : Dirs]
    PROVE  IInv' /\ Tightens
<1>1. UNCHANGED <<disabled, tool, entered, mode, allow, fds, reused, filters, landlock>>
  BY DEF kernel
<1>2. /\ order' \in Seq(Fds) /\ Len(order') <= FD_LIMITS
      /\ \A i, j \in 1..Len(order') : order'[i] = order'[j] => i = j
      /\ \A i \in 1..Len(order) : i \in 1..Len(order') /\ order'[i] = order[i]
      /\ \E i \in 1..Len(order') : order'[i] = fd
  <2>1. /\ order \in Seq(Fds) /\ Len(order) <= FD_LIMITS
        /\ \A i, j \in 1..Len(order) : order[i] = order[j] => i = j
    BY DEF IInv, TypeOK, RegistryFaithful
  <2> QED BY <2>1, FindOrder
<1>3. /\ limit \in [Fds -> Limits] /\ limit' \in [Fds -> Limits] /\ limit'[fd] = l
      /\ \A g \in Fds : g # fd => limit'[g] = limit[g]
  BY DEF IInv, TypeOK
<1>4. /\ asked \in [Fds -> Limits] /\ asked' \in [Fds -> Limits] /\ asked'[fd] = a
      /\ \A g \in Fds : g # fd => asked'[g] = asked[g]
  BY DEF IInv, TypeOK
<1>5. TypeOK'
  BY <1>1, <1>2, <1>3, <1>4 DEF IInv, TypeOK
<1>6. AllOrNothing'
  BY <1>1 DEF IInv, AllOrNothing
<1>7. ASSUME NEW g \in Fds
      PROVE  /\ limit'[g].deny = asked'[g].deny
             /\ limit'[g].fcntls = asked'[g].fcntls
             /\ g \notin cut' => limit'[g].ioctls = asked'[g].ioctls
             /\ (\A i \in 1..Len(order') : order'[i] # g) => asked'[g] = Fresh
  <2>1. CASE g = fd
    BY <1>2, <1>3, <1>4, <2>1
  <2>2. CASE g # fd
    BY <1>2, <1>3, <1>4, <2>2 DEF IInv, RegistryFaithful
  <2> QED BY <2>1, <2>2
<1>8. RegistryFaithful'
  BY <1>2, <1>7 DEF RegistryFaithful
<1> QED BY <1>5, <1>6, <1>8 DEF IInv, Tightens

-----------------------------------------------------------------------------
(* The operations.                                                         *)

\* A failing call leaves everything but the tool as it is.
LEMMA FailHeld == ASSUME IInv, Fail PROVE IInv' /\ Tightens
<1>1. /\ tool' = "exited"
      /\ UNCHANGED <<disabled, order, limit, lookup, entered, mode, kernel, ghosts>>
      /\ UNCHANGED <<allow, fds, reused, calls>>
  BY DEF Fail, shim
<1>2. /\ allow' \in Seq(Dirs) /\ fds' \in [Fds -> Descriptors] /\ calls' \in Nat
      /\ reused' \subseteq [fd : Fds, at : Dirs]
  BY <1>1 DEF IInv, TypeOK
<1> QED BY <1>1, <1>2, IdleHeld

\* So does a call that does nothing.
LEMMA NoopHeld == ASSUME IInv, UNCHANGED vars PROVE IInv' /\ Tightens
<1>1. /\ tool' = tool
      /\ UNCHANGED <<disabled, order, limit, lookup, entered, mode, kernel, ghosts>>
      /\ UNCHANGED <<allow, fds, reused, calls>>
  BY DEF vars, shim
<1>2. /\ allow' \in Seq(Dirs) /\ fds' \in [Fds -> Descriptors] /\ calls' \in Nat
      /\ reused' \subseteq [fd : Fds, at : Dirs]
  BY <1>1 DEF IInv, TypeOK
<1> QED BY <1>1, <1>2, IdleHeld

\* A directory descriptor has its place in the file system.
LEMMA DirHasPlace ==
    ASSUME NEW d \in Descriptors, d.kind = "dir"
    PROVE  d.at \in Dirs
BY DEF Descriptors, Closed, File, DirAt

\* What AskRights records is typed, and is the request merged in.
LEMMA AskTypes ==
    ASSUME TypeOK, NEW fd \in Fds, NEW r, ~RightsRefused(fd, r), AskRights(fd, r)
    PROVE  /\ asked' = [asked EXCEPT ![fd] = LimitRights(asked[fd], r)]
           /\ asked' \in [Fds -> Limits] /\ LimitRights(asked[fd], r) \in Limits
           /\ cut' = cut
           /\ late' \in [Fds -> SUBSET Classes]
           /\ looked' \subseteq [fd : Fds, at : Dirs]
<1> DEFINE a == asked[fd]
<1>1. a \in Limits /\ asked \in [Fds -> Limits]
  BY DEF TypeOK
<1>2. LimitRights(a, r) =
        [deny   |-> a.deny \cup DeniedClasses(r),
         ioctls |-> IF "IOCTL" \in r THEN a.ioctls ELSE Narrow(a.ioctls, SafeIoctls),
         fcntls |-> IF "FCNTL" \in r THEN a.fcntls ELSE Narrow(a.fcntls, safe_fcntls)]
  BY DEF LimitRights, lim_merge, Narrow
<1>3. asked' = [asked EXCEPT ![fd] = LimitRights(asked[fd], r)]
  BY <1>2 DEF AskRights
<1>4. LimitRights(a, r) \in Limits
  <2> HIDE DEF a
  <2> QED BY <1>1, LimitRightsType
<1>5. asked' \in [Fds -> Limits]
  BY <1>1, <1>3, <1>4
<1>6. late' \in [Fds -> SUBSET Classes]
  <2>1. DeniedClasses(r) \in SUBSET Classes /\ late \in [Fds -> SUBSET Classes]
    BY DEF DeniedClasses, TypeOK
  <2>2. late[fd] \cup DeniedClasses(r) \in SUBSET Classes
    BY <2>1
  <2> QED BY <2>1, <2>2 DEF AskRights
<1>7. looked' \subseteq [fd : Fds, at : Dirs]
  <2>1. "LOOKUP" \in r => fds[fd].at \in Dirs
    BY DirHasPlace DEF RightsRefused, TypeOK
  <2> QED BY <2>1 DEF AskRights, TypeOK
<1> QED BY <1>3, <1>4, <1>5, <1>6, <1>7 DEF AskRights

\* caph_rights_limit and caph_limit_stream.
LEMMA RightsHeld ==
    ASSUME IInv, tool = "running", NEW fd \in Fds, NEW r, RightsLimit(fd, r)
    PROVE  IInv' /\ Tightens
<1>0. TypeOK /\ calls \in Nat
  BY DEF IInv, TypeOK
<1>1. CASE RightsRefused(fd, r) /\ Fail
  BY <1>1, FailHeld
<1>2. CASE /\ ~RightsRefused(fd, r) /\ ~entered
           /\ lookup' = IF "LOOKUP" \in r /\ Len(lookup) < LOOKUP_MAX
                          THEN Append(lookup, fd) ELSE lookup
           /\ order' = lim_find(fd)
           /\ limit' = [limit EXCEPT ![fd] = LimitRights(@, r)]
           /\ AskRights(fd, r)
           /\ calls' = calls + 1
           /\ UNCHANGED <<disabled, tool, entered, mode, allow, fds, reused, kernel>>
  <2> DEFINE l == LimitRights(limit[fd], r)
             a == LimitRights(asked[fd], r)
  <2>1. /\ asked' = [asked EXCEPT ![fd] = a] /\ a \in Limits
        /\ cut' = cut /\ late' \in [Fds -> SUBSET Classes]
        /\ looked' \subseteq [fd : Fds, at : Dirs]
    BY <1>0, <1>2, AskTypes
  <2>2. limit[fd] \in Limits /\ asked[fd] \in Limits
    BY <1>0 DEF TypeOK
  <2>3. limit' = [limit EXCEPT ![fd] = l] /\ l \in Limits
    BY <1>2, <2>2, LimitRightsType
  <2>4. /\ limit[fd].deny = asked[fd].deny /\ limit[fd].fcntls = asked[fd].fcntls
        /\ fd \notin cut => limit[fd].ioctls = asked[fd].ioctls
    BY <1>2 DEF IInv, RegistryFaithful
  <2>5. l.deny = a.deny /\ l.fcntls = a.fcntls /\ (fd \notin cut => l.ioctls = a.ioctls)
    BY <2>4 DEF LimitRights
  <2>6. lookup' \in Seq(Fds) /\ calls' \in Nat
    <3>1. lookup \in Seq(Fds)
      BY <1>0 DEF TypeOK
    <3>2. Append(lookup, fd) \in Seq(Fds)
      BY <3>1, AppendProperties
    <3> QED BY <1>0, <1>2, <3>1, <3>2
  <2>7. HasSlot(fd)
    BY <1>2 DEF RightsRefused
  <2>8. cut' \subseteq Fds /\ cut \subseteq cut'
    BY <1>0, <2>1 DEF TypeOK
  <2> HIDE DEF l, a
  <2> QED BY <1>2, <2>1, <2>3, <2>5, <2>6, <2>7, <2>8, RegisterHeld
<1>3. CASE /\ ~RightsRefused(fd, r) /\ entered
           /\ Load(RightsLayers(fd, r))
           /\ IF tool' = "running" THEN AskRights(fd, r) ELSE UNCHANGED ghosts
           /\ calls' = calls + 1
           /\ UNCHANGED <<disabled, shim, fds, reused, landlock>>
  <2>1. /\ asked' \in [Fds -> Limits] /\ cut' \subseteq Fds
        /\ late' \in [Fds -> SUBSET Classes] /\ looked' \subseteq [fd : Fds, at : Dirs]
    <3>1. CASE AskRights(fd, r)
      BY <1>0, <1>3, <3>1, AskTypes DEF TypeOK
    <3>2. CASE UNCHANGED ghosts
      BY <1>0, <3>2 DEF ghosts, TypeOK
    <3> QED BY <1>3, <3>1, <3>2
  <2>2. RightsLayers(fd, r) \in Seq(Layers)
    BY RightsLayersType
  <2>3. calls' \in Nat
    BY <1>0, <1>3
  <2> QED BY <1>3, <2>1, <2>2, <2>3, StackHeld
<1> QED BY <1>1, <1>2, <1>3 DEF RightsLimit

\* A list of at most IOCTL_MAX commands is registered whole.
LEMMA CutList ==
    ASSUME NEW cmds \in IoctlLists,
           NEW n, n = IF Len(cmds) < IOCTL_MAX THEN Len(cmds) ELSE IOCTL_MAX
    PROVE  /\ {cmds[i] : i \in 1..n} \in SUBSET IoctlCmds
           /\ Range(cmds) \in SUBSET IoctlCmds
           /\ ~(n < Len(cmds)) => {cmds[i] : i \in 1..n} = Range(cmds)
<1>1. cmds \in Seq(IoctlCmds) /\ IOCTL_MAX \in Nat
  BY ConstantsAssumption
<1>2. DOMAIN cmds = 1..Len(cmds) /\ Len(cmds) \in Nat
  BY <1>1, LenProperties
<1>3. \A i \in 1..Len(cmds) : cmds[i] \in IoctlCmds
  BY <1>1, ElementOfSeq
<1> DEFINE m == Len(cmds)
<1>4. m \in Nat /\ n \in Nat /\ n <= m /\ (~(n < m) => n = m)
  <2>1. m \in Nat /\ n = IF m < IOCTL_MAX THEN m ELSE IOCTL_MAX
    BY <1>2
  <2> HIDE DEF m
  <2>2. CASE m < IOCTL_MAX
    BY <2>1, <2>2
  <2>3. CASE ~(m < IOCTL_MAX)
    BY <1>1, <2>1, <2>3
  <2> QED BY <2>2, <2>3
<1>5. 1..n \subseteq 1..m
  BY <1>4
<1> QED BY <1>2, <1>3, <1>4, <1>5 DEF Range

\* What is registered of a list is on it.
LEMMA CutInside ==
    ASSUME NEW cmds \in IoctlLists
    PROVE  {cmds[i] : i \in 1..(IF Len(cmds) < IOCTL_MAX THEN Len(cmds) ELSE IOCTL_MAX)}
              \subseteq Range(cmds)
<1>1. cmds \in Seq(IoctlCmds) /\ IOCTL_MAX \in Nat
  BY ConstantsAssumption
<1>2. DOMAIN cmds = 1..Len(cmds) /\ Len(cmds) \in Nat
  BY <1>1, LenProperties
<1>3. \A i \in 1..(IF Len(cmds) < IOCTL_MAX THEN Len(cmds) ELSE IOCTL_MAX) :
         i \in 1..Len(cmds)
  BY <1>1, <1>2
<1> QED BY <1>2, <1>3 DEF Range

\* A layer with one allowlist for one fd.
LEMMA OneArgLayer ==
    ASSUME NEW fd \in Fds, NEW nr \in Nat, NEW list \in SUBSET (IoctlCmds \cup FcntlCmds)
    PROVE  <<ArgsLayer(nr, <<fd>>, [f \in Fds |-> IF f = fd THEN list ELSE Unrestricted])>>
              \in Seq(Layers)
<1> DEFINE l == [f \in Fds |-> IF f = fd THEN list ELSE Unrestricted]
<1>1. list \in Lists /\ Unrestricted \in Lists
  BY DEF Lists
<1>2. l \in [Fds -> Lists] /\ <<fd>> \in Seq(Fds)
  BY <1>1
<1> HIDE DEF l
<1>3. ArgsLayer(nr, <<fd>>, l) \in Layers
  BY <1>2, LayerTypes
<1> QED BY <1>3 DEF l

\* caph_ioctls_limit: the list registered is the one asked for, unless it was cut.
LEMMA IoctlsHeld ==
    ASSUME IInv, NEW fd \in Fds, NEW cmds \in IoctlLists, caph_ioctls_limit(fd, cmds)
    PROVE  IInv' /\ Tightens
<1> DEFINE n == IF Len(cmds) < IOCTL_MAX THEN Len(cmds) ELSE IOCTL_MAX
           list == {cmds[i] : i \in 1..n}
           l == [limit[fd] EXCEPT !.ioctls = lim_merge(@, list)]
           a == [asked[fd] EXCEPT !.ioctls = Narrow(@, Range(cmds))]
           Asked == /\ asked' = [asked EXCEPT ![fd].ioctls = Narrow(@, Range(cmds))]
                    /\ cut' = IF n < Len(cmds) THEN cut \cup {fd} ELSE cut
                    /\ calls' = calls + 1
                    /\ UNCHANGED <<late, looked>>
<1>0. TypeOK /\ tool = "running"
  BY DEF IInv, caph_ioctls_limit
<1>1. CASE disabled
  BY <1>1, NoopHeld DEF caph_ioctls_limit, Noop
<1>2. CASE ~disabled
  <2>1. /\ ArgLimit(fd, SYS_ioctl, list)
        /\ IF tool' = "running" THEN Asked ELSE UNCHANGED <<calls, ghosts>>
    BY <1>2 DEF caph_ioctls_limit
  <2>2. /\ list \in SUBSET IoctlCmds /\ Range(cmds) \in SUBSET IoctlCmds
        /\ ~(n < Len(cmds)) => list = Range(cmds)
    BY CutList
  <2>3. limit[fd] \in Limits /\ asked[fd] \in Limits
    BY <1>0 DEF TypeOK
  <2> HIDE DEF n, list
  <2>4. /\ lim_merge(limit[fd].ioctls, list) \in SUBSET IoctlCmds
        /\ Narrow(asked[fd].ioctls, Range(cmds)) \in SUBSET IoctlCmds
        /\ Narrow(asked[fd].ioctls, Range(cmds)) = lim_merge(asked[fd].ioctls, Range(cmds))
    <3>1. /\ limit[fd].ioctls \in (SUBSET IoctlCmds) \cup {Unrestricted}
          /\ asked[fd].ioctls \in (SUBSET IoctlCmds) \cup {Unrestricted}
      BY <2>3 DEF Limits
    <3> DEFINE p == limit[fd].ioctls
               q == asked[fd].ioctls
               given == Range(cmds)
    <3>2. /\ p \in (SUBSET IoctlCmds) \cup {Unrestricted} /\ list \in SUBSET IoctlCmds
          /\ q \in (SUBSET IoctlCmds) \cup {Unrestricted} /\ given \in SUBSET IoctlCmds
      BY <2>2, <3>1
    <3> HIDE DEF p, q, given
    <3>3. lim_merge(p, list) \in SUBSET IoctlCmds
      BY <3>2, MergeType
    <3>4. lim_merge(q, given) \in SUBSET IoctlCmds /\ Narrow(q, given) = lim_merge(q, given)
      BY <3>2, MergeType
    <3> QED BY <3>3, <3>4 DEF p, q, given
  <2>5. /\ l \in Limits /\ l.deny = limit[fd].deny /\ l.fcntls = limit[fd].fcntls
        /\ l.ioctls = lim_merge(limit[fd].ioctls, list)
    BY <2>3, <2>4 DEF Limits
  <2>6. /\ a \in Limits /\ a.deny = asked[fd].deny /\ a.fcntls = asked[fd].fcntls
        /\ a.ioctls = lim_merge(asked[fd].ioctls, Range(cmds))
    BY <2>3, <2>4 DEF Limits
  <2>7. ASSUME Asked
        PROVE  /\ asked' = [asked EXCEPT ![fd] = a] /\ asked' \in [Fds -> Limits]
               /\ cut' = IF n < Len(cmds) THEN cut \cup {fd} ELSE cut
               /\ cut \subseteq cut' /\ cut' \subseteq Fds
               /\ calls' \in Nat /\ late' \in [Fds -> SUBSET Classes]
               /\ looked' \subseteq [fd : Fds, at : Dirs]
    <3>1. asked' = [asked EXCEPT ![fd] = a]
      BY <2>7
    <3>2. asked' \in [Fds -> Limits]
      BY <1>0, <2>6, <3>1 DEF TypeOK
    <3> QED BY <1>0, <2>7, <3>1, <3>2 DEF TypeOK
  <2>8. CASE ~entered /\ ~HasSlot(fd) /\ Fail
    BY <2>8, FailHeld
  <2>9. CASE /\ ~entered /\ HasSlot(fd)
             /\ order' = lim_find(fd)
             /\ limit' = [limit EXCEPT ![fd].ioctls = lim_merge(@, list)]
             /\ UNCHANGED <<disabled, tool, lookup, allow, entered, mode, fds, reused, kernel>>
    <3>1. Asked
      BY <1>0, <2>1, <2>9
    <3>2. limit' = [limit EXCEPT ![fd] = l]
      BY <2>9
    <3>3. /\ limit[fd].deny = asked[fd].deny /\ limit[fd].fcntls = asked[fd].fcntls
          /\ fd \notin cut => limit[fd].ioctls = asked[fd].ioctls
      BY <1>0, <2>9 DEF IInv, RegistryFaithful
    <3>4. /\ asked' = [asked EXCEPT ![fd] = a]
          /\ cut' = IF n < Len(cmds) THEN cut \cup {fd} ELSE cut
          /\ cut \subseteq cut' /\ cut' \subseteq Fds
          /\ calls' \in Nat /\ late' \in [Fds -> SUBSET Classes]
          /\ looked' \subseteq [fd : Fds, at : Dirs]
      BY <2>7, <3>1
    <3>5. /\ l.deny = a.deny /\ l.fcntls = a.fcntls
          /\ fd \notin cut' => l.ioctls = a.ioctls
      BY <2>2, <2>5, <2>6, <3>3, <3>4
    <3>6. lookup' \in Seq(Fds)
      BY <1>0, <2>9 DEF TypeOK
    <3>7. l \in Limits /\ a \in Limits
      BY <2>5, <2>6
    <3> HIDE DEF l, a, Asked
    <3> QED BY <1>0, <2>9, <3>2, <3>4, <3>5, <3>6, <3>7, RegisterHeld
  <2>10. CASE /\ entered
              /\ Load(<<ArgsLayer(SYS_ioctl, <<fd>>,
                          [f \in Fds |-> IF f = fd THEN list ELSE Unrestricted])>>)
              /\ UNCHANGED <<disabled, shim, fds, reused, landlock>>
    <3>1. list \in SUBSET (IoctlCmds \cup FcntlCmds) /\ SYS_ioctl \in Nat
      BY <2>2 DEF SYS_ioctl
    <3>2. <<ArgsLayer(SYS_ioctl, <<fd>>,
             [f \in Fds |-> IF f = fd THEN list ELSE Unrestricted])>> \in Seq(Layers)
      BY <3>1, OneArgLayer
    <3>3. /\ asked' \in [Fds -> Limits] /\ cut' \subseteq Fds /\ calls' \in Nat
          /\ late' \in [Fds -> SUBSET Classes] /\ looked' \subseteq [fd : Fds, at : Dirs]
      <4>1. CASE Asked
        BY <2>7, <4>1
      <4>2. CASE UNCHANGED <<calls, ghosts>>
        BY <1>0, <4>2 DEF ghosts, TypeOK
      <4> QED BY <2>1, <4>1, <4>2
    <3> QED BY <1>0, <2>10, <3>2, <3>3, StackHeld
  <2> QED BY <2>1, <2>8, <2>9, <2>10 DEF ArgLimit
<1> QED BY <1>1, <1>2

\* caph_fcntls_limit, for either of its two rights.
LEMMA FcntlsHeld ==
    ASSUME IInv, NEW fd \in Fds, NEW fr \in FcntlRights, caph_fcntls_limit(fd, fr)
    PROVE  IInv' /\ Tightens
<1> DEFINE list == {F_GETFD, F_SETFD} \cup fr
           l == [limit[fd] EXCEPT !.fcntls = lim_merge(@, list)]
           a == [asked[fd] EXCEPT !.fcntls = Narrow(@, list)]
           Asked == /\ asked' = [asked EXCEPT ![fd].fcntls = Narrow(@, list)]
                    /\ calls' = calls + 1
                    /\ UNCHANGED <<late, looked, cut>>
<1>0. TypeOK /\ tool = "running"
  BY DEF IInv, caph_fcntls_limit
<1>1. CASE disabled
  BY <1>1, NoopHeld DEF caph_fcntls_limit, Noop
<1>2. CASE ~disabled
  <2>1. /\ ArgLimit(fd, SYS_fcntl, list)
        /\ IF tool' = "running" THEN Asked ELSE UNCHANGED <<calls, ghosts>>
    BY <1>2 DEF caph_fcntls_limit
  <2>2. list \in SUBSET FcntlCmds
    <3>1. fr \subseteq {F_GETFL, F_SETFL}
      BY ConstantsAssumption
    <3> QED BY <3>1 DEF FcntlCmds
  <2>3. limit[fd] \in Limits /\ asked[fd] \in Limits
    BY <1>0 DEF TypeOK
  <2> HIDE DEF list
  <2>4. /\ lim_merge(limit[fd].fcntls, list) \in SUBSET FcntlCmds
        /\ Narrow(asked[fd].fcntls, list) \in SUBSET FcntlCmds
        /\ Narrow(asked[fd].fcntls, list) = lim_merge(asked[fd].fcntls, list)
    <3> DEFINE p == limit[fd].fcntls
               q == asked[fd].fcntls
    <3>1. /\ p \in (SUBSET FcntlCmds) \cup {Unrestricted}
          /\ q \in (SUBSET FcntlCmds) \cup {Unrestricted}
      BY <2>3 DEF Limits
    <3> HIDE DEF p, q
    <3>2. lim_merge(p, list) \in SUBSET FcntlCmds
      BY <2>2, <3>1, MergeType
    <3>3. lim_merge(q, list) \in SUBSET FcntlCmds /\ Narrow(q, list) = lim_merge(q, list)
      BY <2>2, <3>1, MergeType
    <3> QED BY <3>2, <3>3 DEF p, q
  <2>5. /\ l \in Limits /\ l.deny = limit[fd].deny /\ l.ioctls = limit[fd].ioctls
        /\ l.fcntls = lim_merge(limit[fd].fcntls, list)
    BY <2>3, <2>4 DEF Limits
  <2>6. /\ a \in Limits /\ a.deny = asked[fd].deny /\ a.ioctls = asked[fd].ioctls
        /\ a.fcntls = lim_merge(asked[fd].fcntls, list)
    BY <2>3, <2>4 DEF Limits
  <2>7. ASSUME Asked
        PROVE  /\ asked' = [asked EXCEPT ![fd] = a] /\ asked' \in [Fds -> Limits]
               /\ cut' = cut /\ cut' \subseteq Fds
               /\ calls' \in Nat /\ late' \in [Fds -> SUBSET Classes]
               /\ looked' \subseteq [fd : Fds, at : Dirs]
    <3>1. asked' = [asked EXCEPT ![fd] = a]
      BY <2>7
    <3>2. asked' \in [Fds -> Limits]
      BY <1>0, <2>6, <3>1 DEF TypeOK
    <3> QED BY <1>0, <2>7, <3>1, <3>2 DEF TypeOK
  <2>8. CASE ~entered /\ ~HasSlot(fd) /\ Fail
    BY <2>8, FailHeld
  <2>9. CASE /\ ~entered /\ HasSlot(fd)
             /\ order' = lim_find(fd)
             /\ limit' = [limit EXCEPT ![fd].fcntls = lim_merge(@, list)]
             /\ UNCHANGED <<disabled, tool, lookup, allow, entered, mode, fds, reused, kernel>>
    <3>1. Asked
      BY <1>0, <2>1, <2>9
    <3>2. limit' = [limit EXCEPT ![fd] = l]
      BY <2>9
    <3>3. /\ limit[fd].deny = asked[fd].deny /\ limit[fd].fcntls = asked[fd].fcntls
          /\ fd \notin cut => limit[fd].ioctls = asked[fd].ioctls
      BY <1>0, <2>9 DEF IInv, RegistryFaithful
    <3>4. /\ asked' = [asked EXCEPT ![fd] = a]
          /\ cut' = cut /\ cut \subseteq cut' /\ cut' \subseteq Fds
          /\ calls' \in Nat /\ late' \in [Fds -> SUBSET Classes]
          /\ looked' \subseteq [fd : Fds, at : Dirs]
      BY <2>7, <3>1
    <3>5. /\ l.deny = a.deny /\ l.fcntls = a.fcntls
          /\ fd \notin cut' => l.ioctls = a.ioctls
      BY <2>5, <2>6, <3>3, <3>4
    <3>6. lookup' \in Seq(Fds)
      BY <1>0, <2>9 DEF TypeOK
    <3>7. l \in Limits /\ a \in Limits
      BY <2>5, <2>6
    <3> HIDE DEF l, a, Asked
    <3> QED BY <1>0, <2>9, <3>2, <3>4, <3>5, <3>6, <3>7, RegisterHeld
  <2>10. CASE /\ entered
              /\ Load(<<ArgsLayer(SYS_fcntl, <<fd>>,
                          [f \in Fds |-> IF f = fd THEN list ELSE Unrestricted])>>)
              /\ UNCHANGED <<disabled, shim, fds, reused, landlock>>
    <3>1. list \in SUBSET (IoctlCmds \cup FcntlCmds) /\ SYS_fcntl \in Nat
      BY <2>2 DEF SYS_fcntl
    <3>2. <<ArgsLayer(SYS_fcntl, <<fd>>,
             [f \in Fds |-> IF f = fd THEN list ELSE Unrestricted])>> \in Seq(Layers)
      BY <3>1, OneArgLayer
    <3>3. /\ asked' \in [Fds -> Limits] /\ cut' \subseteq Fds /\ calls' \in Nat
          /\ late' \in [Fds -> SUBSET Classes] /\ looked' \subseteq [fd : Fds, at : Dirs]
      <4>1. CASE Asked
        BY <2>7, <4>1
      <4>2. CASE UNCHANGED <<calls, ghosts>>
        BY <1>0, <4>2 DEF ghosts, TypeOK
      <4> QED BY <2>1, <4>1, <4>2
    <3> QED BY <1>0, <2>10, <3>2, <3>3, StackHeld
  <2>11. SYS_fcntl # SYS_ioctl
    BY DEF SYS_fcntl, SYS_ioctl
  <2> QED BY <2>1, <2>8, <2>9, <2>10, <2>11 DEF ArgLimit
<1> QED BY <1>1, <1>2

\* caph_enter and its variants, up to the point where all is loaded.
LEMMA EnterHeld ==
    ASSUME IInv, NEW m \in Modes, EnterMode(m)
    PROVE  IInv' /\ Tightens
<1>0. TypeOK /\ tool = "running"
  BY DEF IInv, EnterMode
<1>1. CASE SkipEnter /\ Noop
  BY <1>1, NoopHeld DEF Noop
<1>2. CASE ~SkipEnter /\ Fail
  BY <1>2, FailHeld
<1>3. CASE /\ ~SkipEnter
           /\ RulesOk(m)
           /\ landlock' = landlock_lockdown(m)
           /\ Load(<<NsLayer(m)>> \o flush_registered_limits)
           /\ entered' = (tool' = "running")
           /\ mode' = m
           /\ UNCHANGED <<disabled, order, limit, lookup, allow, fds, reused, calls, ghosts>>
  <2> DEFINE rest == flush_registered_limits
             ns == NsLayer(m)
             l == <<ns>> \o rest
  <2>1. rest \in Seq(Layers) /\ ns \in Layers
    <3>1. ns \in Layers
      BY <1>0, LayerTypes DEF TypeOK
    <3> QED BY <1>0, <3>1, FlushType
  <2>2. Load(l)
    BY <1>3
  <2> HIDE DEF rest, ns
  <2>4. <<ns>> \in Seq(Layers) /\ Len(<<ns>>) = 1 /\ <<ns>>[1] = ns
    BY <2>1
  <2>5. l \in Seq(Layers) /\ Len(l) > 0 /\ l[1] = ns
    <3>1. l \in Seq(Layers) /\ Len(l) = 1 + Len(rest) /\ l[1] = <<ns>>[1]
      BY <2>1, <2>4, ConcatProperties
    <3>2. Len(rest) \in Nat
      BY <2>1, LenProperties
    <3> QED BY <2>4, <3>1, <3>2
  <2> HIDE DEF l
  <2>6. ~entered /\ ~disabled /\ filters = << >> /\ filters \in Seq(Layers)
    BY <1>0, <1>3 DEF IInv, AllOrNothing, SkipEnter, TypeOK
  <2>7. /\ filters' \in Seq(Layers) /\ tool' \in {"running", "exited"}
        /\ tool' = "running" => filters' = filters \o l
    BY <1>0, <2>2, <2>5, <2>6, LoadStacks
  <2>8. tool' = "running" => filters' = l
    BY <2>5, <2>6, <2>7, ConcatEmptySeq
  <2>9. landlock' \in [handled : SUBSET {"read", "mutate"}, beneath : SUBSET Dirs]
        /\ "mutate" \in landlock'.handled
    <3>1. Beneath(m) \in SUBSET Dirs
      <4>1. CASE m = MODE_FULL
        <5>1. \A i \in DOMAIN lookup : fds[lookup[i]].kind = "dir"
          BY <1>3, <4>1 DEF RulesOk
        <5>2. \A i \in DOMAIN lookup : lookup[i] \in Fds
          BY <1>0, LenProperties, ElementOfSeq DEF TypeOK
        <5>3. \A i \in DOMAIN lookup : fds[lookup[i]].at \in Dirs
          BY <1>0, <5>1, <5>2, DirHasPlace DEF TypeOK
        <5> QED BY <4>1, <5>3 DEF Beneath, MODE_FULL, MODE_PATHS, MODE_CASPER
      <4>2. CASE m = MODE_PATHS
        <5>1. \A i \in DOMAIN allow : allow[i] \in Dirs
          BY <1>0, LenProperties, ElementOfSeq DEF TypeOK
        <5> QED BY <4>2, <5>1 DEF Beneath, MODE_FULL, MODE_PATHS, MODE_CASPER, Range
      <4>3. CASE m = MODE_CASPER
        BY <4>3 DEF Beneath, MODE_FULL, MODE_PATHS, MODE_CASPER
      <4> QED BY <4>1, <4>2, <4>3 DEF Modes
    <3> QED BY <1>3, <3>1 DEF landlock_lockdown
  <2>10. TypeOK'
    <3>1. entered' \in BOOLEAN
      BY <1>3
    <3>2. UNCHANGED <<disabled, order, limit, lookup, allow, fds, reused, calls,
                      asked, cut, late, looked>>
      BY <1>3 DEF ghosts
    <3> QED BY <1>0, <1>3, <2>7, <2>9, <3>1, <3>2 DEF TypeOK
  <2>11. AllOrNothing'
    <3>1. tool' = "running" => entered'
      BY <1>3
    <3>2. ~disabled' /\ mode' = m
      BY <1>3, <2>6
    <3>3. tool' = "running" => filters' # << >> /\ filters'[1] = ns
      BY <2>5, <2>8
    <3>4. ns = NsLayer(mode)'
      BY <1>3 DEF ns, NsLayer
    <3> QED BY <2>9, <3>1, <3>2, <3>3, <3>4 DEF AllOrNothing
  <2>12. RegistryFaithful'
    <3>1. UNCHANGED <<order, limit, asked, cut>> /\ (tool' = "running" => entered')
      BY <1>3 DEF ghosts
    <3> QED BY <3>1 DEF IInv, RegistryFaithful
  <2> QED BY <2>6, <2>10, <2>11, <2>12 DEF IInv, Tightens
<1> QED BY <1>1, <1>2, <1>3 DEF EnterMode

-----------------------------------------------------------------------------
\* The sandbox is off, and the registry empty, when the tool starts.
LEMMA InitIInv == Init => IInv
<1> SUFFICES ASSUME Init PROVE IInv
  OBVIOUS
<1>1. \A fd \in Fds : limit[fd] = Fresh /\ asked[fd] = Fresh
  BY DEF Init
<1>2. Fresh \in Limits
  BY DEF Fresh, Limits
<1>3. /\ limit \in [Fds -> Limits] /\ asked \in [Fds -> Limits]
      /\ late \in [Fds -> SUBSET Classes]
  BY <1>2 DEF Init
<1>4. TypeOK
  <2>1. disabled \in BOOLEAN /\ entered \in BOOLEAN
    BY DEF Init
  <2>2. mode \in Modes /\ fds \in [Fds -> Descriptors]
    BY ConstantsAssumption DEF Init, Modes
  <2>3. landlock \in [handled : SUBSET {"read", "mutate"}, beneath : SUBSET Dirs]
    BY DEF Init
  <2>4. /\ order \in Seq(Fds) /\ lookup \in Seq(Fds) /\ allow \in Seq(Dirs)
        /\ filters \in Seq(Layers) /\ calls \in Nat /\ tool = "running"
        /\ cut = {} /\ looked = {} /\ reused = {}
    BY DEF Init
  <2> QED BY <1>3, <2>1, <2>2, <2>3, <2>4 DEF TypeOK
<1>5. AllOrNothing
  BY DEF Init, AllOrNothing
<1>6. RegistryFaithful
  <2>1. order = << >> /\ FD_LIMITS \in Nat
    BY ConstantsAssumption DEF Init
  <2> QED BY <1>1, <2>1 DEF RegistryFaithful
<1> QED BY <1>4, <1>5, <1>6 DEF IInv

\* Every call of the shim, and every open and close of the tool, keeps the
\* invariant and loosens nothing.
LEMMA NextIInv == IInv /\ [Next]_vars => IInv' /\ Tightens
<1> SUFFICES ASSUME IInv, [Next]_vars PROVE IInv' /\ Tightens
  OBVIOUS
<1>0. TypeOK
  BY DEF IInv
<1>1. ASSUME NEW m \in Modes, EnterMode(m) PROVE IInv' /\ Tightens
  BY <1>1, EnterHeld
<1>2. ASSUME NEW fd \in Fds, NEW r \in RightsSets, caph_rights_limit(fd, r)
      PROVE  IInv' /\ Tightens
  BY <1>2, NoopHeld, RightsHeld DEF caph_rights_limit, Noop
<1>3. ASSUME NEW fd \in Fds, NEW fl \in StreamFlags, caph_limit_stream(fd, fl)
      PROVE  IInv' /\ Tightens
  BY <1>3, NoopHeld, RightsHeld DEF caph_limit_stream, Noop
<1>4. ASSUME NEW fd \in Fds, NEW cmds \in IoctlLists, caph_ioctls_limit(fd, cmds)
      PROVE  IInv' /\ Tightens
  BY <1>4, IoctlsHeld
<1>5. ASSUME NEW fd \in Fds, NEW fr \in FcntlRights, caph_fcntls_limit(fd, fr)
      PROVE  IInv' /\ Tightens
  BY <1>5, FcntlsHeld
<1>6. ASSUME NEW fd \in Fds, NEW k \in {"file", "dir"}, NEW dir \in Dirs, Open(fd, k, dir)
      PROVE  IInv' /\ Tightens
  <2>1. /\ tool' = tool /\ allow' = allow /\ calls' = calls + 1
        /\ UNCHANGED <<disabled, order, limit, lookup, entered, mode, kernel, ghosts>>
        /\ fds' = [fds EXCEPT ![fd] = IF k = "dir" THEN DirAt(dir) ELSE File]
        /\ reused' \subseteq reused \cup {[fd |-> fd, at |-> dir]}
    BY <1>6 DEF Open, shim
  <2>2. DirAt(dir) \in Descriptors /\ File \in Descriptors
    BY DEF Descriptors
  <2>3. /\ allow' \in Seq(Dirs) /\ fds' \in [Fds -> Descriptors] /\ calls' \in Nat
        /\ reused' \subseteq [fd : Fds, at : Dirs]
    BY <1>0, <2>1, <2>2 DEF TypeOK
  <2> QED BY <2>1, <2>3, IdleHeld
<1>7. ASSUME NEW fd \in Fds, Close(fd) PROVE IInv' /\ Tightens
  <2>1. /\ tool' = tool /\ allow' = allow /\ calls' = calls + 1
        /\ UNCHANGED <<disabled, order, limit, lookup, entered, mode, kernel, ghosts>>
        /\ fds' = [fds EXCEPT ![fd] = Closed] /\ reused' = reused
    BY <1>7 DEF Close, shim
  <2>2. Closed \in Descriptors
    BY DEF Descriptors
  <2>3. /\ allow' \in Seq(Dirs) /\ fds' \in [Fds -> Descriptors] /\ calls' \in Nat
        /\ reused' \subseteq [fd : Fds, at : Dirs]
    BY <1>0, <2>1, <2>2 DEF TypeOK
  <2> QED BY <2>1, <2>3, IdleHeld
<1>8. ASSUME NEW dir \in Dirs, caph_allow_path(dir) PROVE IInv' /\ Tightens
  <2>1. CASE disabled /\ Noop
    BY <2>1, NoopHeld DEF Noop
  <2>2. CASE ~disabled /\ Fail
    BY <2>2, FailHeld
  <2>3. CASE /\ allow' = Append(allow, dir) /\ calls' = calls + 1
             /\ UNCHANGED <<disabled, tool, order, limit, lookup, entered, mode,
                            fds, reused, kernel, ghosts>>
    <3>1. allow' \in Seq(Dirs)
      BY <1>0, <2>3, AppendProperties DEF TypeOK
    <3>2. /\ fds' \in [Fds -> Descriptors] /\ calls' \in Nat
          /\ reused' \subseteq [fd : Fds, at : Dirs]
      BY <1>0, <2>3 DEF TypeOK
    <3> QED BY <2>3, <3>1, <3>2, IdleHeld
  <2> QED BY <1>8, <2>1, <2>2, <2>3 DEF caph_allow_path
<1>9. CASE UNCHANGED vars
  BY <1>9, NoopHeld
<1> QED BY <1>1, <1>2, <1>3, <1>4, <1>5, <1>6, <1>7, <1>8, <1>9 DEF Next

\* Types, sandbox and registry hold together in every state of a tool.
THEOREM ShimInvariance == Spec => []IInv
BY InitIInv, NextIInv, PTL DEF Spec

\* The tables of capsicum.c and the kernel objects it makes keep their types; in
\* particular every Landlock rule is about a directory (enter_mode).
THEOREM ShimTypes == Spec => []TypeOK
<1>1. IInv => TypeOK
  BY DEF IInv
<1> QED BY <1>1, ShimInvariance, PTL

\* A running tool is under no restriction before it has entered, or with the sandbox
\* disabled; after that, under Landlock and the namespace program of its mode, built
\* from the directories registered by then (enter_mode, caph_rights_limit).
THEOREM SandboxAllOrNothing == Spec => []AllOrNothing
<1>1. IInv => AllOrNothing
  BY DEF IInv
<1> QED BY <1>1, ShimInvariance, PTL

\* The registry never outgrows its slots or holds an fd twice, and up to entering each
\* entry is what the calls asked for (lim_find, lim_merge).
THEOREM RegistryIsFaithful == Spec => []RegistryFaithful
<1>1. IInv => RegistryFaithful
  BY DEF IInv
<1> QED BY <1>1, ShimInvariance, PTL

\* After entering, no call leaves the sandbox, changes its mode or Landlock domain, or
\* takes a program off the stack (enter_mode and every limit call).
THEOREM EnteringIsFinal == Spec => OnlyTightens
<1>1. IInv /\ [Next]_vars =>
        [entered => /\ entered' /\ mode' = mode /\ landlock' = landlock
                    /\ IsPrefix(filters, filters')]_vars
  BY NextIInv DEF Tightens
<1> QED BY <1>1, ShimInvariance, PTL DEF Spec, OnlyTightens

-----------------------------------------------------------------------------
(* What the layers add up to.                                              *)

\* Merging a list in allows what both allow.
LEMMA MergeAllows ==
    ASSUME NEW Cmds \in SUBSET (IoctlCmds \cup FcntlCmds),
           NEW dst \in (SUBSET Cmds) \cup {Unrestricted}, NEW src \in SUBSET Cmds, NEW c
    PROVE  Allowed(lim_merge(dst, src), c) <=> Allowed(dst, c) /\ c \in src
<1>1. src # Unrestricted
  BY ConstantsAssumption
<1>2. CASE dst = Unrestricted
  BY <1>1, <1>2 DEF Allowed, lim_merge
<1>3. CASE dst # Unrestricted
  <2>1. dst \cap src # Unrestricted
    <3>1. dst \cap src \in SUBSET (IoctlCmds \cup FcntlCmds)
      OBVIOUS
    <3> QED BY <3>1, ConstantsAssumption
  <2> QED BY <1>3, <2>1 DEF Allowed, lim_merge
<1> QED BY <1>2, <1>3

\* The programs of two stacks decide together.
LEMMA StackBoth ==
    ASSUME NEW s \in Seq(Layers), NEW t \in Seq(Layers), NEW nr, NEW fd, NEW c
    PROVE  /\ AllPass(s \o t, nr, fd, c) <=> AllPass(s, nr, fd, c) /\ AllPass(t, nr, fd, c)
           /\ AnyStops(s \o t, fd, c) <=> AnyStops(s, fd, c) \/ AnyStops(t, fd, c)
<1> DEFINE u == s \o t
           m == Len(s)
           n == Len(t)
<1>1. /\ Len(u) = m + n /\ m \in Nat /\ n \in Nat
      /\ \A i \in 1..m : u[i] = s[i]
      /\ \A i \in 1..n : u[m + i] = t[i]
  <2>1. /\ Len(s \o t) = Len(s) + Len(t)
        /\ \A i \in 1..(Len(s) + Len(t)) :
              (s \o t)[i] = IF i <= Len(s) THEN s[i] ELSE t[i - Len(s)]
    BY ConcatProperties
  <2>2. m \in Nat /\ n \in Nat
    BY LenProperties
  <2> HIDE DEF u, m, n
  <2>3. Len(u) = m + n /\ \A i \in 1..(m + n) : u[i] = IF i <= m THEN s[i] ELSE t[i - m]
    BY <2>1 DEF u, m, n
  <2>4. \A i \in 1..m : i \in 1..(m + n) /\ i <= m
    BY <2>2
  <2>5. \A i \in 1..n : m + i \in 1..(m + n) /\ ~(m + i <= m) /\ (m + i) - m = i
    BY <2>2
  <2> QED BY <2>2, <2>3, <2>4, <2>5
<1> HIDE DEF u, m, n
<1>2. \A i \in 1..(m + n) : i \in 1..m \/ \E j \in 1..n : i = m + j
  <2> SUFFICES ASSUME NEW i \in 1..(m + n), i \notin 1..m
               PROVE  i - m \in 1..n /\ i = m + (i - m)
    OBVIOUS
  <2> QED BY <1>1
<1>3. 1..m \subseteq 1..(m + n) /\ \A j \in 1..n : m + j \in 1..(m + n)
  BY <1>1
<1>4. AllPass(u, nr, fd, c) <=> AllPass(s, nr, fd, c) /\ AllPass(t, nr, fd, c)
  <2>1. ASSUME AllPass(u, nr, fd, c) PROVE AllPass(s, nr, fd, c) /\ AllPass(t, nr, fd, c)
    <3>1. \A i \in 1..m : Passes(s[i], nr, fd, c)
      BY <1>1, <1>3, <2>1 DEF AllPass
    <3>2. \A i \in 1..n : Passes(t[i], nr, fd, c)
      BY <1>1, <1>3, <2>1 DEF AllPass
    <3> QED BY <3>1, <3>2 DEF AllPass, m, n
  <2>2. ASSUME AllPass(s, nr, fd, c), AllPass(t, nr, fd, c) PROVE AllPass(u, nr, fd, c)
    <3>1. \A i \in 1..m : Passes(u[i], nr, fd, c)
      BY <1>1, <2>2 DEF AllPass, m
    <3>2. \A i \in 1..n : Passes(u[m + i], nr, fd, c)
      BY <1>1, <2>2 DEF AllPass, n
    <3>3. \A i \in 1..(m + n) : Passes(u[i], nr, fd, c)
      BY <1>2, <3>1, <3>2
    <3> QED BY <1>1, <3>3 DEF AllPass
  <2> QED BY <2>1, <2>2
<1>5. AnyStops(u, fd, c) <=> AnyStops(s, fd, c) \/ AnyStops(t, fd, c)
  <2>1. ASSUME AnyStops(u, fd, c) PROVE AnyStops(s, fd, c) \/ AnyStops(t, fd, c)
    <3>1. PICK i \in 1..(m + n) : Stops(u[i], fd, c)
      BY <1>1, <2>1 DEF AnyStops
    <3>2. CASE i \in 1..m
      BY <1>1, <3>1, <3>2 DEF AnyStops, m
    <3>3. CASE \E j \in 1..n : i = m + j
      BY <1>1, <3>1, <3>3 DEF AnyStops, n
    <3> QED BY <1>2, <3>2, <3>3
  <2>2. ASSUME AnyStops(s, fd, c) PROVE AnyStops(u, fd, c)
    <3>1. PICK i \in 1..m : Stops(s[i], fd, c)
      BY <2>2 DEF AnyStops, m
    <3> QED BY <1>1, <1>3, <3>1 DEF AnyStops
  <2>3. ASSUME AnyStops(t, fd, c) PROVE AnyStops(u, fd, c)
    <3>1. PICK i \in 1..n : Stops(t[i], fd, c)
      BY <2>3 DEF AnyStops, n
    <3> QED BY <1>1, <1>3, <3>1 DEF AnyStops
  <2> QED BY <2>1, <2>2, <2>3
<1> QED BY <1>4, <1>5 DEF u

\* A layer that is loaded on a condition.
When(P, x) == IF P THEN <<x>> ELSE << >>

\* It decides only if it is loaded.
LEMMA StackOne ==
    ASSUME NEW P \in BOOLEAN, NEW x \in Layers, NEW nr, NEW fd, NEW c
    PROVE  /\ When(P, x) \in Seq(Layers)
           /\ AllPass(When(P, x), nr, fd, c) <=> (P => Passes(x, nr, fd, c))
           /\ AnyStops(When(P, x), fd, c) <=> P /\ Stops(x, fd, c)
<1>1. CASE P
  <2>1. Len(<<x>>) = 1 /\ <<x>>[1] = x /\ 1..1 = {1}
    OBVIOUS
  <2> QED BY <1>1, <2>1 DEF AllPass, AnyStops, When
<1>2. CASE ~P
  <2>1. 1..Len(<< >>) = {}
    OBVIOUS
  <2> QED BY <1>2, <2>1 DEF AllPass, AnyStops, When
<1> QED BY <1>1, <1>2

\* The programs of three stacks decide together.
LEMMA StackAll ==
    ASSUME NEW p \in Seq(Layers), NEW q \in Seq(Layers), NEW r \in Seq(Layers),
           NEW nr, NEW fd, NEW c
    PROVE  /\ AllPass(p \o q \o r, nr, fd, c) <=> /\ AllPass(p, nr, fd, c)
                                                  /\ AllPass(q, nr, fd, c)
                                                  /\ AllPass(r, nr, fd, c)
           /\ AnyStops(p \o q \o r, fd, c) <=> \/ AnyStops(p, fd, c)
                                               \/ AnyStops(q, fd, c)
                                               \/ AnyStops(r, fd, c)
<1> DEFINE pq == p \o q
<1>1. pq \in Seq(Layers)
  BY ConcatProperties
<1>2. /\ AllPass(pq, nr, fd, c) <=> AllPass(p, nr, fd, c) /\ AllPass(q, nr, fd, c)
      /\ AnyStops(pq, fd, c) <=> AnyStops(p, fd, c) \/ AnyStops(q, fd, c)
  BY StackBoth
<1> HIDE DEF pq
<1>3. /\ AllPass(pq \o r, nr, fd, c) <=> AllPass(pq, nr, fd, c) /\ AllPass(r, nr, fd, c)
      /\ AnyStops(pq \o r, fd, c) <=> AnyStops(pq, fd, c) \/ AnyStops(r, fd, c)
  BY <1>1, StackBoth
<1> QED BY <1>2, <1>3, Zenon DEF pq

\* The three layers of a flush, or of a late caph_rights_limit, each loaded on a
\* condition.
LEMMA StackThree ==
    ASSUME NEW P \in BOOLEAN, NEW Q \in BOOLEAN, NEW R \in BOOLEAN,
           NEW x \in Layers, NEW y \in Layers, NEW z \in Layers, NEW nr, NEW fd, NEW c
    PROVE  /\ AllPass(When(P, x) \o When(Q, y) \o When(R, z), nr, fd, c)
                 <=> /\ P => Passes(x, nr, fd, c)
                     /\ Q => Passes(y, nr, fd, c)
                     /\ R => Passes(z, nr, fd, c)
           /\ AnyStops(When(P, x) \o When(Q, y) \o When(R, z), fd, c)
                 <=> \/ P /\ Stops(x, fd, c)
                     \/ Q /\ Stops(y, fd, c)
                     \/ R /\ Stops(z, fd, c)
<1> DEFINE p == When(P, x)
           q == When(Q, y)
           r == When(R, z)
           s == p \o q \o r
<1>1. /\ p \in Seq(Layers)
      /\ AllPass(p, nr, fd, c) <=> (P => Passes(x, nr, fd, c))
      /\ AnyStops(p, fd, c) <=> P /\ Stops(x, fd, c)
  BY StackOne
<1>2. /\ q \in Seq(Layers)
      /\ AllPass(q, nr, fd, c) <=> (Q => Passes(y, nr, fd, c))
      /\ AnyStops(q, fd, c) <=> Q /\ Stops(y, fd, c)
  BY StackOne
<1>3. /\ r \in Seq(Layers)
      /\ AllPass(r, nr, fd, c) <=> (R => Passes(z, nr, fd, c))
      /\ AnyStops(r, fd, c) <=> R /\ Stops(z, fd, c)
  BY StackOne
<1> HIDE DEF p, q, r
<1>4. /\ AllPass(s, nr, fd, c) <=> /\ AllPass(p, nr, fd, c)
                                   /\ AllPass(q, nr, fd, c)
                                   /\ AllPass(r, nr, fd, c)
      /\ AnyStops(s, fd, c) <=> \/ AnyStops(p, fd, c)
                                \/ AnyStops(q, fd, c)
                                \/ AnyStops(r, fd, c)
  BY <1>1, <1>2, <1>3, StackAll
<1> HIDE DEF s
<1>5. /\ AllPass(s, nr, fd, c) <=> /\ P => Passes(x, nr, fd, c)
                                   /\ Q => Passes(y, nr, fd, c)
                                   /\ R => Passes(z, nr, fd, c)
      /\ AnyStops(s, fd, c) <=> \/ P /\ Stops(x, fd, c)
                                \/ Q /\ Stops(y, fd, c)
                                \/ R /\ Stops(z, fd, c)
  BY <1>1, <1>2, <1>3, <1>4, Zenon
<1> QED BY <1>5, Zenon DEF p, q, r, s

\* What each kind of layer decides.
LEMMA LayersDecide ==
    ASSUME NEW o, NEW d, NEW l, NEW n, NEW m, NEW nr, NEW fd, NEW c
    PROVE  /\ Passes(DenyLayer(o, d), nr, fd, c)
           /\ Stops(DenyLayer(o, d), fd, c) <=> fd \in Range(o) /\ c \in d[fd]
           /\ Passes(ArgsLayer(n, o, l), nr, fd, c)
                 <=> (n = nr /\ fd \in Range(o) => Allowed(l[fd], c))
           /\ ~Stops(ArgsLayer(n, o, l), fd, c)
           /\ Passes(NsLayer(m), nr, fd, c) /\ ~Stops(NsLayer(m), fd, c)
BY DEF Passes, Stops, DenyLayer, ArgsLayer, NsLayer

\* flush_registered_limits loads exactly what the registry says of its fds.
LEMMA FlushDecides ==
    ASSUME TypeOK, NEW fd \in Fds, NEW c
    PROVE  LET here == fd \in Range(order) IN
           /\ AllPass(flush_registered_limits, SYS_ioctl, fd, c)
                 <=> (here => Allowed(limit[fd].ioctls, c))
           /\ AllPass(flush_registered_limits, SYS_fcntl, fd, c)
                 <=> (here => Allowed(limit[fd].fcntls, c))
           /\ AnyStops(flush_registered_limits, fd, c) <=> here /\ c \in limit[fd].deny
<1> DEFINE deny   == [g \in Fds |-> limit[g].deny]
           ioctls == [g \in Fds |-> limit[g].ioctls]
           fcntls == [g \in Fds |-> limit[g].fcntls]
           P == \E g \in Range(order) : deny[g] # {}
           Q == \E g \in Range(order) : ioctls[g] # Unrestricted
           R == \E g \in Range(order) : fcntls[g] # Unrestricted
           x == DenyLayer(order, deny)
           y == ArgsLayer(SYS_ioctl, order, ioctls)
           z == ArgsLayer(SYS_fcntl, order, fcntls)
<1>1. flush_registered_limits = When(P, x) \o When(Q, y) \o When(R, z)
  BY DEF flush_registered_limits, When
<1>2. x \in Layers /\ y \in Layers /\ z \in Layers
  <2>1. deny \in [Fds -> SUBSET Classes]
    BY DEF TypeOK, Limits
  <2>2. ioctls \in [Fds -> Lists] /\ fcntls \in [Fds -> Lists]
    BY DEF TypeOK, Limits, Lists
  <2>3. order \in Seq(Fds) /\ SYS_ioctl \in Nat /\ SYS_fcntl \in Nat
    BY DEF TypeOK, SYS_ioctl, SYS_fcntl
  <2> HIDE DEF deny, ioctls, fcntls
  <2> QED BY <2>1, <2>2, <2>3, LayerTypes
<1>3. /\ deny[fd] = limit[fd].deny
      /\ ioctls[fd] = limit[fd].ioctls /\ fcntls[fd] = limit[fd].fcntls
  OBVIOUS
<1>4. SYS_ioctl # SYS_fcntl
  BY DEF SYS_ioctl, SYS_fcntl
<1> HIDE DEF deny, ioctls, fcntls
<1>5. \A nr : /\ Passes(x, nr, fd, c)
              /\ Passes(y, nr, fd, c) <=>
                    (SYS_ioctl = nr /\ fd \in Range(order) => Allowed(ioctls[fd], c))
              /\ Passes(z, nr, fd, c) <=>
                    (SYS_fcntl = nr /\ fd \in Range(order) => Allowed(fcntls[fd], c))
  BY LayersDecide, Zenon
<1>6. /\ Stops(x, fd, c) <=> fd \in Range(order) /\ c \in deny[fd]
      /\ ~Stops(y, fd, c) /\ ~Stops(z, fd, c)
  BY LayersDecide, Zenon
<1>7. P \in BOOLEAN /\ Q \in BOOLEAN /\ R \in BOOLEAN
  OBVIOUS
<1>8. /\ fd \in Range(order) /\ c \in deny[fd] => P
      /\ fd \in Range(order) /\ ~Allowed(ioctls[fd], c) => Q
      /\ fd \in Range(order) /\ ~Allowed(fcntls[fd], c) => R
  BY DEF Allowed
<1> DEFINE f == flush_registered_limits
<1> HIDE DEF P, Q, R, x, y, z
<1>9. \A nr : AllPass(f, nr, fd, c) <=> /\ P => Passes(x, nr, fd, c)
                                        /\ Q => Passes(y, nr, fd, c)
                                        /\ R => Passes(z, nr, fd, c)
  BY <1>1, <1>2, <1>7, StackThree
<1>10. /\ AnyStops(f, fd, c) <=> \/ P /\ Stops(x, fd, c)
                                 \/ Q /\ Stops(y, fd, c)
                                 \/ R /\ Stops(z, fd, c)
       /\ AllPass(f, SYS_ioctl, fd, c) <=> /\ P => Passes(x, SYS_ioctl, fd, c)
                                           /\ Q => Passes(y, SYS_ioctl, fd, c)
                                           /\ R => Passes(z, SYS_ioctl, fd, c)
  BY SMTT(30), <1>1, <1>2, <1>7, StackThree
<1> HIDE DEF f
<1>11. AllPass(f, SYS_ioctl, fd, c) <=> (fd \in Range(order) => Allowed(ioctls[fd], c))
  BY <1>4, <1>5, <1>8, <1>9, Zenon
<1>12. AllPass(f, SYS_fcntl, fd, c) <=> (fd \in Range(order) => Allowed(fcntls[fd], c))
  BY <1>4, <1>5, <1>8, <1>9, Zenon
<1>13. AnyStops(f, fd, c) <=> fd \in Range(order) /\ c \in deny[fd]
  BY <1>6, <1>8, <1>10
<1> QED BY <1>3, <1>11, <1>12, <1>13, Zenon DEF f

\* caph_rights_limit after entering stacks exactly what it denies to its fd.
LEMMA RightsDecide ==
    ASSUME NEW fd \in Fds, NEW r, NEW g \in Fds, NEW c
    PROVE  /\ AllPass(RightsLayers(fd, r), SYS_ioctl, g, c)
                 <=> (g = fd /\ "IOCTL" \notin r => Allowed(SafeIoctls, c))
           /\ AllPass(RightsLayers(fd, r), SYS_fcntl, g, c)
                 <=> (g = fd /\ "FCNTL" \notin r => Allowed(safe_fcntls, c))
           /\ AnyStops(RightsLayers(fd, r), g, c) <=> g = fd /\ c \in DeniedClasses(r)
<1> DEFINE one(v, none) == [f \in Fds |-> IF f = fd THEN v ELSE none]
           deny   == one(DeniedClasses(r), {})
           ioctls == one(SafeIoctls, Unrestricted)
           fcntls == one(safe_fcntls, Unrestricted)
           P == DeniedClasses(r) # {}
           Q == "IOCTL" \notin r
           R == "FCNTL" \notin r
           x == DenyLayer(<<fd>>, deny)
           y == ArgsLayer(SYS_ioctl, <<fd>>, ioctls)
           z == ArgsLayer(SYS_fcntl, <<fd>>, fcntls)
           s == RightsLayers(fd, r)
<1>1. s = When(P, x) \o When(Q, y) \o When(R, z)
  BY DEF RightsLayers, When
<1>2. x \in Layers /\ y \in Layers /\ z \in Layers
  <2>1. deny \in [Fds -> SUBSET Classes]
    BY DEF DeniedClasses
  <2>2. SafeIoctls \in Lists /\ Unrestricted \in Lists
    BY ConstantsAssumption DEF Lists
  <2>3. safe_fcntls \in Lists
    BY DEF safe_fcntls, FcntlCmds, Lists
  <2>4. ioctls \in [Fds -> Lists] /\ fcntls \in [Fds -> Lists]
    BY <2>2, <2>3
  <2>5. <<fd>> \in Seq(Fds) /\ SYS_ioctl \in Nat /\ SYS_fcntl \in Nat
    BY DEF SYS_ioctl, SYS_fcntl
  <2> HIDE DEF deny, ioctls, fcntls
  <2> QED BY <2>1, <2>4, <2>5, LayerTypes
<1>3. g \in Range(<<fd>>) <=> g = fd
  BY DEF Range
<1>4. /\ g = fd => /\ deny[g] = DeniedClasses(r)
                   /\ ioctls[g] = SafeIoctls /\ fcntls[g] = safe_fcntls
      /\ SYS_ioctl # SYS_fcntl
  BY DEF SYS_ioctl, SYS_fcntl
<1> HIDE DEF deny, ioctls, fcntls
<1>5. \A nr : /\ Passes(x, nr, g, c)
              /\ Passes(y, nr, g, c) <=>
                    (SYS_ioctl = nr /\ g \in Range(<<fd>>) => Allowed(ioctls[g], c))
              /\ Passes(z, nr, g, c) <=>
                    (SYS_fcntl = nr /\ g \in Range(<<fd>>) => Allowed(fcntls[g], c))
  BY LayersDecide, Zenon
<1>6. /\ Stops(x, g, c) <=> g \in Range(<<fd>>) /\ c \in deny[g]
      /\ ~Stops(y, g, c) /\ ~Stops(z, g, c)
  BY LayersDecide, Zenon
<1>7. P \in BOOLEAN /\ Q \in BOOLEAN /\ R \in BOOLEAN
  OBVIOUS
<1>8. c \in DeniedClasses(r) => P
  OBVIOUS
<1> HIDE DEF P, x, y, z
<1>9. \A nr : AllPass(s, nr, g, c) <=> /\ P => Passes(x, nr, g, c)
                                       /\ Q => Passes(y, nr, g, c)
                                       /\ R => Passes(z, nr, g, c)
  <2> HIDE DEF Q, R, s
  <2> QED BY <1>1, <1>2, <1>7, StackThree
<1>10. /\ AnyStops(s, g, c) <=> \/ P /\ Stops(x, g, c)
                                \/ Q /\ Stops(y, g, c)
                                \/ R /\ Stops(z, g, c)
       /\ AllPass(s, SYS_ioctl, g, c) <=> /\ P => Passes(x, SYS_ioctl, g, c)
                                          /\ Q => Passes(y, SYS_ioctl, g, c)
                                          /\ R => Passes(z, SYS_ioctl, g, c)
  <2> HIDE DEF Q, R, s
  <2> QED BY SMTT(30), <1>1, <1>2, <1>7, StackThree
<1> HIDE DEF s
<1>11. AllPass(s, SYS_ioctl, g, c) <=> (g = fd /\ "IOCTL" \notin r => Allowed(SafeIoctls, c))
  BY <1>3, <1>4, <1>5, <1>9, Zenon
<1>12. AllPass(s, SYS_fcntl, g, c) <=> (g = fd /\ "FCNTL" \notin r => Allowed(safe_fcntls, c))
  BY <1>3, <1>4, <1>5, <1>9, Zenon
<1>13. AnyStops(s, g, c) <=> g = fd /\ c \in DeniedClasses(r)
  BY <1>3, <1>4, <1>6, <1>8, <1>10
<1> QED BY <1>11, <1>12, <1>13, Zenon DEF s

\* What ArgLimit loads after entering.
OneArg(fd, n, list) ==
    <<ArgsLayer(n, <<fd>>, [f \in Fds |-> IF f = fd THEN list ELSE Unrestricted])>>

\* caph_ioctls_limit or caph_fcntls_limit after entering stacks its one list.
LEMMA OneArgDecides ==
    ASSUME NEW fd \in Fds, NEW n \in Nat, NEW list \in SUBSET (IoctlCmds \cup FcntlCmds),
           NEW g \in Fds, NEW nr, NEW c
    PROVE  /\ OneArg(fd, n, list) \in Seq(Layers)
           /\ AllPass(OneArg(fd, n, list), nr, g, c) <=> (n = nr /\ g = fd => c \in list)
           /\ ~AnyStops(OneArg(fd, n, list), g, c)
<1> DEFINE s == OneArg(fd, n, list)
           l == [f \in Fds |-> IF f = fd THEN list ELSE Unrestricted]
           x == ArgsLayer(n, <<fd>>, l)
<1>1. s = When(TRUE, x)
  BY DEF When, OneArg
<1>2. x \in Layers
  <2>1. list \in Lists /\ Unrestricted \in Lists
    BY DEF Lists
  <2>2. l \in [Fds -> Lists] /\ <<fd>> \in Seq(Fds)
    BY <2>1
  <2> HIDE DEF l
  <2> QED BY <2>2, LayerTypes
<1>3. g = fd => l[g] = list
  OBVIOUS
<1>4. list # Unrestricted /\ (g \in Range(<<fd>>) <=> g = fd)
  BY SMTT(30), ConstantsAssumption DEF Range
<1> HIDE DEF l
<1>5. /\ Passes(x, nr, g, c) <=> (n = nr /\ g \in Range(<<fd>>) => Allowed(l[g], c))
      /\ ~Stops(x, g, c)
  BY LayersDecide, Zenon
<1>6. Passes(x, nr, g, c) <=> (n = nr /\ g = fd => c \in list)
  BY <1>3, <1>4, <1>5 DEF Allowed
<1> HIDE DEF x
<1>7. /\ When(TRUE, x) \in Seq(Layers)
      /\ AllPass(When(TRUE, x), nr, g, c) <=> (TRUE => Passes(x, nr, g, c))
      /\ AnyStops(When(TRUE, x), g, c) <=> TRUE /\ Stops(x, g, c)
  BY <1>2, StackOne
<1> QED BY <1>1, <1>5, <1>6, <1>7, Zenon

\* What an entry allows after caph_rights_limit.
LEMMA RightsAllow ==
    ASSUME NEW l \in Limits, NEW r, NEW c
    PROVE  /\ Allowed(LimitRights(l, r).ioctls, c) <=>
                 Allowed(l.ioctls, c) /\ ("IOCTL" \notin r => Allowed(SafeIoctls, c))
           /\ Allowed(LimitRights(l, r).fcntls, c) <=>
                 Allowed(l.fcntls, c) /\ ("FCNTL" \notin r => Allowed(safe_fcntls, c))
           /\ LimitRights(l, r).deny = l.deny \cup DeniedClasses(r)
<1> DEFINE i == l.ioctls
           f == l.fcntls
<1>1. /\ i \in (SUBSET IoctlCmds) \cup {Unrestricted}
      /\ f \in (SUBSET FcntlCmds) \cup {Unrestricted}
  BY DEF Limits
<1>2. /\ SafeIoctls \in SUBSET IoctlCmds /\ safe_fcntls \in SUBSET FcntlCmds
      /\ SafeIoctls # Unrestricted /\ safe_fcntls # Unrestricted
  <2>1. SafeIoctls \in SUBSET IoctlCmds /\ safe_fcntls \in SUBSET FcntlCmds
    BY ConstantsAssumption DEF safe_fcntls, FcntlCmds
  <2>2. SafeIoctls \in SUBSET (IoctlCmds \cup FcntlCmds)
        /\ safe_fcntls \in SUBSET (IoctlCmds \cup FcntlCmds)
    BY <2>1
  <2> QED BY <2>1, <2>2, ConstantsAssumption
<1>3. /\ LimitRights(l, r).ioctls = IF "IOCTL" \in r THEN i ELSE lim_merge(i, SafeIoctls)
      /\ LimitRights(l, r).fcntls = IF "FCNTL" \in r THEN f ELSE lim_merge(f, safe_fcntls)
      /\ LimitRights(l, r).deny = l.deny \cup DeniedClasses(r)
  BY DEF LimitRights
<1> HIDE DEF i, f
<1>4. Allowed(lim_merge(i, SafeIoctls), c) <=> Allowed(i, c) /\ c \in SafeIoctls
  <2>1. IoctlCmds \in SUBSET (IoctlCmds \cup FcntlCmds)
    OBVIOUS
  <2> QED BY <1>1, <1>2, <2>1, MergeAllows
<1>5. Allowed(lim_merge(f, safe_fcntls), c) <=> Allowed(f, c) /\ c \in safe_fcntls
  <2>1. FcntlCmds \in SUBSET (IoctlCmds \cup FcntlCmds)
    OBVIOUS
  <2> QED BY <1>1, <1>2, <2>1, MergeAllows
<1>6. /\ Allowed(SafeIoctls, c) <=> c \in SafeIoctls
      /\ Allowed(safe_fcntls, c) <=> c \in safe_fcntls
  BY <1>2 DEF Allowed
<1>7. Allowed(LimitRights(l, r).ioctls, c) <=>
         Allowed(i, c) /\ ("IOCTL" \notin r => Allowed(SafeIoctls, c))
  BY <1>3, <1>4, <1>6
<1>8. Allowed(LimitRights(l, r).fcntls, c) <=>
         Allowed(f, c) /\ ("FCNTL" \notin r => Allowed(safe_fcntls, c))
  BY <1>3, <1>5, <1>6
<1> QED BY <1>3, <1>7, <1>8 DEF i, f

\* A step that touches neither limits nor layers.
LEMMA LayeredIdle ==
    ASSUME Layered, tool' \in {tool, "exited"},
           UNCHANGED <<limit, entered, filters, asked, cut>>
    PROVE  Layered'
BY DEF Layered, LayersFaithful, CutNarrows, AllPass, AnyStops, Passes, Stops, Allowed

\* A limit call after entering: what it stacks and what it asks for agree.
LEMMA LayeredStack ==
    ASSUME TypeOK, Layered, entered, tool = "running", NEW l \in Seq(Layers), Load(l),
           entered' = entered, cut \subseteq cut',
           tool' = "running" => \A g \in Fds :
             /\ \A c \in IoctlCmds :
                  LET both == AllPass(l, SYS_ioctl, g, c) /\ Allowed(asked[g].ioctls, c)
                  IN /\ both => Allowed(asked'[g].ioctls, c)
                     /\ g \notin cut' /\ Allowed(asked'[g].ioctls, c) => both
             /\ \A c \in FcntlCmds :
                  Allowed(asked'[g].fcntls, c) <=>
                     AllPass(l, SYS_fcntl, g, c) /\ Allowed(asked[g].fcntls, c)
             /\ \A c \in Classes :
                  c \in asked'[g].deny <=> AnyStops(l, g, c) \/ c \in asked[g].deny
    PROVE  Layered'
<1>1. filters \in Seq(Layers)
  BY DEF TypeOK
<1>2. tool' = "running" => filters' = filters \o l
  BY <1>1, LoadStacks
<1>3. CutNarrows'
  BY DEF CutNarrows
<1>4. ASSUME tool' = "running", NEW g \in Fds
      PROVE  /\ \A c \in IoctlCmds :
                  /\ AllPass(filters', SYS_ioctl, g, c) => Allowed(asked'[g].ioctls, c)
                  /\ g \notin cut' /\ Allowed(asked'[g].ioctls, c)
                        => AllPass(filters', SYS_ioctl, g, c)
             /\ \A c \in FcntlCmds :
                  AllPass(filters', SYS_fcntl, g, c) <=> Allowed(asked'[g].fcntls, c)
             /\ \A c \in Classes : AnyStops(filters', g, c) <=> c \in asked'[g].deny
  <2>1. \A nr, c : AllPass(filters', nr, g, c)
                     <=> AllPass(filters, nr, g, c) /\ AllPass(l, nr, g, c)
    <3> SUFFICES ASSUME NEW nr, NEW c
                 PROVE  AllPass(filters \o l, nr, g, c)
                           <=> AllPass(filters, nr, g, c) /\ AllPass(l, nr, g, c)
      BY <1>2, <1>4
    <3> QED BY <1>1, StackBoth
  <2>2. \A c : AnyStops(filters', g, c) <=> AnyStops(filters, g, c) \/ AnyStops(l, g, c)
    <3> SUFFICES ASSUME NEW c PROVE AnyStops(filters \o l, g, c)
                                     <=> AnyStops(filters, g, c) \/ AnyStops(l, g, c)
      BY <1>2, <1>4
    <3>1. /\ AllPass(filters \o l, 0, g, c)
                <=> AllPass(filters, 0, g, c) /\ AllPass(l, 0, g, c)
          /\ AnyStops(filters \o l, g, c) <=> AnyStops(filters, g, c) \/ AnyStops(l, g, c)
      BY <1>1, StackBoth
    <3> QED BY <3>1
  <2>3. /\ \A c \in IoctlCmds :
              /\ AllPass(filters, SYS_ioctl, g, c) => Allowed(asked[g].ioctls, c)
              /\ g \notin cut /\ Allowed(asked[g].ioctls, c)
                    => AllPass(filters, SYS_ioctl, g, c)
        /\ \A c \in FcntlCmds :
              AllPass(filters, SYS_fcntl, g, c) <=> Allowed(asked[g].fcntls, c)
        /\ \A c \in Classes : AnyStops(filters, g, c) <=> c \in asked[g].deny
    BY DEF Layered, LayersFaithful
  <2>4. g \notin cut' => g \notin cut
    OBVIOUS
  <2>5. ASSUME NEW c \in IoctlCmds
        PROVE  /\ AllPass(filters', SYS_ioctl, g, c) => Allowed(asked'[g].ioctls, c)
               /\ g \notin cut' /\ Allowed(asked'[g].ioctls, c)
                     => AllPass(filters', SYS_ioctl, g, c)
    BY <1>4, <2>1, <2>3, <2>4
  <2>6. ASSUME NEW c \in FcntlCmds
        PROVE  AllPass(filters', SYS_fcntl, g, c) <=> Allowed(asked'[g].fcntls, c)
    BY <1>4, <2>1, <2>3
  <2>7. ASSUME NEW c \in Classes
        PROVE  AnyStops(filters', g, c) <=> c \in asked'[g].deny
    BY <1>4, <2>2, <2>3
  <2> QED BY <2>5, <2>6, <2>7
<1>5. LayersFaithful'
  BY <1>4 DEF LayersFaithful, AllPass, AnyStops, Passes, Stops, Allowed
<1> QED BY <1>3, <1>5 DEF Layered

\* caph_rights_limit and caph_limit_stream.
LEMMA LayeredRights ==
    ASSUME IInv, Layered, tool = "running", NEW fd \in Fds, NEW r, RightsLimit(fd, r)
    PROVE  Layered'
<1>0. /\ TypeOK /\ limit \in [Fds -> Limits] /\ asked \in [Fds -> Limits]
  BY DEF IInv, TypeOK
<1>1. CASE RightsRefused(fd, r) /\ Fail
  BY <1>1, LayeredIdle DEF Fail, shim, kernel, ghosts
<1>2. CASE /\ ~RightsRefused(fd, r) /\ ~entered
           /\ limit' = [limit EXCEPT ![fd] = LimitRights(@, r)]
           /\ AskRights(fd, r)
           /\ entered' = entered
  <2>1. asked' = [asked EXCEPT ![fd] = LimitRights(asked[fd], r)]
    BY <1>0, <1>2, AskTypes
  <2>2. ASSUME NEW g \in Fds, NEW c \in IoctlCmds, Allowed(limit'[g].ioctls, c)
        PROVE  Allowed(asked'[g].ioctls, c)
    <3>0. \A h \in Fds : Allowed(limit[h].ioctls, c) => Allowed(asked[h].ioctls, c)
      BY <1>2 DEF Layered, CutNarrows
    <3>1. CASE g # fd
      BY <1>0, <1>2, <2>1, <2>2, <3>0, <3>1
    <3>2. CASE g = fd
      <4>1. limit'[g] = LimitRights(limit[fd], r) /\ asked'[g] = LimitRights(asked[fd], r)
        BY <1>0, <1>2, <2>1, <3>2
      <4>2. limit[fd] \in Limits /\ asked[fd] \in Limits
        BY <1>0
      <4>3. Allowed(limit[fd].ioctls, c) /\ ("IOCTL" \notin r => Allowed(SafeIoctls, c))
        BY <2>2, <4>1, <4>2, RightsAllow
      <4>4. Allowed(LimitRights(asked[fd], r).ioctls, c) <=>
              Allowed(asked[fd].ioctls, c) /\ ("IOCTL" \notin r => Allowed(SafeIoctls, c))
        BY <4>2, RightsAllow
      <4> QED BY <3>0, <4>1, <4>3, <4>4
    <3> QED BY <3>1, <3>2
  <2> QED BY <1>2, <2>2 DEF Layered, LayersFaithful, CutNarrows, Allowed
<1>3. CASE /\ ~RightsRefused(fd, r) /\ entered
           /\ Load(RightsLayers(fd, r))
           /\ IF tool' = "running" THEN AskRights(fd, r) ELSE UNCHANGED ghosts
           /\ UNCHANGED <<disabled, shim, fds, reused, landlock>>
  <2> DEFINE l == RightsLayers(fd, r)
  <2>1. l \in Seq(Layers) /\ Load(l)
    BY <1>3, RightsLayersType
  <2>2. entered' = entered /\ cut \subseteq cut'
    BY <1>3 DEF shim, ghosts, AskRights
  <2>3. \A g \in Fds : \A c :
          /\ AllPass(l, SYS_ioctl, g, c)
                <=> (g = fd /\ "IOCTL" \notin r => Allowed(SafeIoctls, c))
          /\ AllPass(l, SYS_fcntl, g, c)
                <=> (g = fd /\ "FCNTL" \notin r => Allowed(safe_fcntls, c))
          /\ AnyStops(l, g, c) <=> g = fd /\ c \in DeniedClasses(r)
    BY RightsDecide
  <2> HIDE DEF l
  <2>4. ASSUME tool' = "running", NEW g \in Fds, NEW c
        PROVE  /\ Allowed(asked'[g].ioctls, c) <=>
                     AllPass(l, SYS_ioctl, g, c) /\ Allowed(asked[g].ioctls, c)
               /\ Allowed(asked'[g].fcntls, c) <=>
                     AllPass(l, SYS_fcntl, g, c) /\ Allowed(asked[g].fcntls, c)
               /\ c \in asked'[g].deny <=> AnyStops(l, g, c) \/ c \in asked[g].deny
    <3>1. asked' = [asked EXCEPT ![fd] = LimitRights(asked[fd], r)]
      BY <1>0, <1>3, <2>4, AskTypes
    <3>2. CASE g # fd
      <4>1. asked'[g] = asked[g]
        BY <1>0, <3>1, <3>2
      <4> QED BY <2>3, <3>2, <4>1
    <3>3. CASE g = fd
      <4>1. asked'[g] = LimitRights(asked[fd], r) /\ asked[fd] \in Limits
        BY <1>0, <3>1, <3>3
      <4>2. /\ Allowed(LimitRights(asked[fd], r).ioctls, c) <=>
                 Allowed(asked[fd].ioctls, c) /\ ("IOCTL" \notin r => Allowed(SafeIoctls, c))
            /\ Allowed(LimitRights(asked[fd], r).fcntls, c) <=>
                 Allowed(asked[fd].fcntls, c) /\ ("FCNTL" \notin r => Allowed(safe_fcntls, c))
            /\ LimitRights(asked[fd], r).deny = asked[fd].deny \cup DeniedClasses(r)
        BY <4>1, RightsAllow
      <4> QED BY <2>3, <3>3, <4>1, <4>2
    <3> QED BY <3>2, <3>3
  <2> QED BY <1>0, <1>3, <2>1, <2>2, <2>4, LayeredStack
<1> QED BY <1>1, <1>2, <1>3 DEF RightsLimit

\* caph_ioctls_limit: a cut list only ever denies more.
LEMMA LayeredIoctls ==
    ASSUME IInv, Layered, NEW fd \in Fds, NEW cmds \in IoctlLists,
           caph_ioctls_limit(fd, cmds)
    PROVE  Layered'
<1> DEFINE n == IF Len(cmds) < IOCTL_MAX THEN Len(cmds) ELSE IOCTL_MAX
           list == {cmds[i] : i \in 1..n}
           given == Range(cmds)
<1>0. /\ TypeOK /\ limit \in [Fds -> Limits] /\ asked \in [Fds -> Limits]
      /\ tool = "running" /\ limit[fd] \in Limits /\ asked[fd] \in Limits
  BY DEF IInv, TypeOK, caph_ioctls_limit
<1>1. CASE disabled
  BY <1>1, LayeredIdle DEF caph_ioctls_limit, Noop, vars, shim, kernel, ghosts
<1>2. CASE ~disabled
  <2>1. /\ ArgLimit(fd, SYS_ioctl, list)
        /\ tool' = "running" =>
             /\ asked' = [asked EXCEPT ![fd].ioctls = Narrow(@, given)]
             /\ cut' = IF n < Len(cmds) THEN cut \cup {fd} ELSE cut
        /\ tool' # "running" => UNCHANGED ghosts
    BY <1>2 DEF caph_ioctls_limit
  <2>2. /\ list \in SUBSET IoctlCmds /\ given \in SUBSET IoctlCmds /\ list \subseteq given
        /\ ~(n < Len(cmds)) => list = given
    <3>1. /\ list \in SUBSET IoctlCmds /\ given \in SUBSET IoctlCmds
          /\ ~(n < Len(cmds)) => list = given
      BY CutList
    <3>2. list \subseteq given
      BY CutInside
    <3> QED BY <3>1, <3>2
  <2> HIDE DEF n, list, given
  <2>3. cut \subseteq cut'
    BY <2>1 DEF ghosts
  <2>4. \A c : /\ Allowed(lim_merge(limit[fd].ioctls, list), c)
                    <=> Allowed(limit[fd].ioctls, c) /\ c \in list
               /\ Allowed(Narrow(asked[fd].ioctls, given), c)
                    <=> Allowed(asked[fd].ioctls, c) /\ c \in given
    <3> DEFINE p == limit[fd].ioctls
               q == asked[fd].ioctls
    <3>1. /\ p \in (SUBSET IoctlCmds) \cup {Unrestricted}
          /\ q \in (SUBSET IoctlCmds) \cup {Unrestricted}
          /\ IoctlCmds \in SUBSET (IoctlCmds \cup FcntlCmds)
      BY <1>0 DEF Limits
    <3> HIDE DEF p, q
    <3>2. \A c : Allowed(lim_merge(p, list), c) <=> Allowed(p, c) /\ c \in list
      BY <2>2, <3>1, MergeAllows
    <3>3. \A c : Allowed(lim_merge(q, given), c) <=> Allowed(q, c) /\ c \in given
      BY <2>2, <3>1, MergeAllows
    <3>4. Narrow(q, given) = lim_merge(q, given)
      BY DEF Narrow, lim_merge
    <3> QED BY <3>2, <3>3, <3>4 DEF p, q
  <2>5. ASSUME tool' = "running"
        PROVE  /\ \A g \in Fds : g # fd => asked'[g] = asked[g]
               /\ asked'[fd].ioctls = Narrow(asked[fd].ioctls, given)
               /\ asked'[fd].fcntls = asked[fd].fcntls
               /\ asked'[fd].deny = asked[fd].deny
    <3>1. asked' = [asked EXCEPT ![fd].ioctls = Narrow(@, given)]
      BY <2>1, <2>5
    <3>2. asked'[fd] = [asked[fd] EXCEPT !.ioctls = Narrow(@, given)]
      BY <1>0, <3>1
    <3> QED BY <1>0, <3>1, <3>2 DEF Limits
  <2>6. CASE ~entered /\ ~HasSlot(fd) /\ Fail
    BY <2>6, LayeredIdle DEF Fail, shim, kernel, ghosts
  <2>7. CASE /\ ~entered
             /\ limit' = [limit EXCEPT ![fd].ioctls = lim_merge(@, list)]
             /\ UNCHANGED <<tool, entered>>
    <3>1. \A g \in Fds : g # fd => limit'[g] = limit[g]
      BY <1>0, <2>7
    <3>2. limit'[fd] = [limit[fd] EXCEPT !.ioctls = lim_merge(@, list)]
      BY <1>0, <2>7
    <3>3. limit'[fd].ioctls = lim_merge(limit[fd].ioctls, list)
      BY <1>0, <3>2 DEF Limits
    <3>4. ASSUME NEW g \in Fds, NEW c \in IoctlCmds, Allowed(limit'[g].ioctls, c)
          PROVE  Allowed(asked'[g].ioctls, c)
      <4>0. \A h \in Fds : Allowed(limit[h].ioctls, c) => Allowed(asked[h].ioctls, c)
        BY <1>0, <2>7 DEF Layered, CutNarrows
      <4>1. CASE g # fd
        BY <1>0, <2>5, <2>7, <3>1, <3>4, <4>0, <4>1
      <4>2. CASE g = fd
        BY <1>0, <2>2, <2>4, <2>5, <2>7, <3>3, <3>4, <4>0, <4>2
      <4> QED BY <4>1, <4>2
    <3> QED BY <2>7, <3>4 DEF Layered, LayersFaithful, CutNarrows, Allowed
  <2>8. CASE /\ entered
             /\ Load(<<ArgsLayer(SYS_ioctl, <<fd>>,
                         [f \in Fds |-> IF f = fd THEN list ELSE Unrestricted])>>)
             /\ UNCHANGED <<disabled, shim, fds, reused, landlock>>
    <3> DEFINE l == OneArg(fd, SYS_ioctl, list)
    <3>1. /\ l \in Seq(Layers)
          /\ \A g \in Fds : \A c :
                /\ AllPass(l, SYS_ioctl, g, c) <=> (g = fd => c \in list)
                /\ AllPass(l, SYS_fcntl, g, c)
                /\ ~AnyStops(l, g, c)
      <4>1. list \in SUBSET (IoctlCmds \cup FcntlCmds) /\ SYS_ioctl \in Nat
            /\ SYS_ioctl # SYS_fcntl
        BY <2>2 DEF SYS_ioctl, SYS_fcntl
      <4>2. \A g \in Fds : \A nr, c :
               /\ l \in Seq(Layers)
               /\ AllPass(l, nr, g, c) <=> (SYS_ioctl = nr /\ g = fd => c \in list)
               /\ ~AnyStops(l, g, c)
        BY <4>1, OneArgDecides
      <4> HIDE DEF l
      <4> QED BY <4>1, <4>2
    <3>2. Load(l) /\ entered' = entered
      BY <2>8 DEF shim, OneArg
    <3> HIDE DEF l
    <3>3. ASSUME tool' = "running", NEW g \in Fds
          PROVE  /\ \A c \in IoctlCmds :
                      LET both == AllPass(l, SYS_ioctl, g, c) /\ Allowed(asked[g].ioctls, c)
                      IN /\ both => Allowed(asked'[g].ioctls, c)
                         /\ g \notin cut' /\ Allowed(asked'[g].ioctls, c) => both
                 /\ \A c \in FcntlCmds :
                      Allowed(asked'[g].fcntls, c) <=>
                         AllPass(l, SYS_fcntl, g, c) /\ Allowed(asked[g].fcntls, c)
                 /\ \A c \in Classes :
                      c \in asked'[g].deny <=> AnyStops(l, g, c) \/ c \in asked[g].deny
      <4>1. CASE g # fd
        <5>1. asked'[g] = asked[g]
          BY <2>5, <3>3, <4>1
        <5> QED BY <3>1, <4>1, <5>1
      <4>2. CASE g = fd
        <5>1. fd \notin cut' => list = given
          BY <2>1, <2>2, <3>3
        <5>2. asked'[g].fcntls = asked[g].fcntls /\ asked'[g].deny = asked[g].deny
          BY <2>5, <3>3, <4>2
        <5>3. \A c : Allowed(asked'[g].ioctls, c)
                       <=> Allowed(asked[g].ioctls, c) /\ c \in given
          BY <2>4, <2>5, <3>3, <4>2
        <5>4. \A c : /\ AllPass(l, SYS_ioctl, g, c) <=> c \in list
                     /\ AllPass(l, SYS_fcntl, g, c) /\ ~AnyStops(l, g, c)
          BY <3>1, <4>2
        <5> QED BY <2>2, <4>2, <5>1, <5>2, <5>3, <5>4
      <4> QED BY <4>1, <4>2
    <3> QED BY <1>0, <2>3, <2>8, <3>1, <3>2, <3>3, LayeredStack
  <2> QED BY <2>1, <2>6, <2>7, <2>8 DEF ArgLimit
<1> QED BY <1>1, <1>2

\* caph_fcntls_limit, whose list is never cut.
LEMMA LayeredFcntls ==
    ASSUME IInv, Layered, NEW fd \in Fds, NEW fr \in FcntlRights, caph_fcntls_limit(fd, fr)
    PROVE  Layered'
<1> DEFINE list == {F_GETFD, F_SETFD} \cup fr
<1>0. /\ TypeOK /\ limit \in [Fds -> Limits] /\ asked \in [Fds -> Limits]
      /\ tool = "running" /\ limit[fd] \in Limits /\ asked[fd] \in Limits
  BY DEF IInv, TypeOK, caph_fcntls_limit
<1>1. CASE disabled
  BY <1>1, LayeredIdle DEF caph_fcntls_limit, Noop, vars, shim, kernel, ghosts
<1>2. CASE ~disabled
  <2>1. /\ ArgLimit(fd, SYS_fcntl, list)
        /\ tool' = "running" =>
             asked' = [asked EXCEPT ![fd].fcntls = Narrow(@, list)] /\ cut' = cut
        /\ tool' # "running" => UNCHANGED ghosts
    BY <1>2 DEF caph_fcntls_limit
  <2>2. list \in SUBSET FcntlCmds
    <3>1. fr \subseteq {F_GETFL, F_SETFL}
      BY ConstantsAssumption
    <3> QED BY <3>1 DEF FcntlCmds
  <2> HIDE DEF list
  <2>3. cut \subseteq cut'
    BY <2>1 DEF ghosts
  <2>4. \A c : Allowed(Narrow(asked[fd].fcntls, list), c)
                 <=> Allowed(asked[fd].fcntls, c) /\ c \in list
    <3> DEFINE q == asked[fd].fcntls
    <3>1. /\ q \in (SUBSET FcntlCmds) \cup {Unrestricted}
          /\ FcntlCmds \in SUBSET (IoctlCmds \cup FcntlCmds)
      BY <1>0 DEF Limits
    <3> HIDE DEF q
    <3>2. \A c : Allowed(lim_merge(q, list), c) <=> Allowed(q, c) /\ c \in list
      BY <2>2, <3>1, MergeAllows
    <3>3. Narrow(q, list) = lim_merge(q, list)
      BY DEF Narrow, lim_merge
    <3> QED BY <3>2, <3>3 DEF q
  <2>5. ASSUME tool' = "running"
        PROVE  /\ \A g \in Fds : g # fd => asked'[g] = asked[g]
               /\ asked'[fd].fcntls = Narrow(asked[fd].fcntls, list)
               /\ asked'[fd].ioctls = asked[fd].ioctls
               /\ asked'[fd].deny = asked[fd].deny
    <3>1. asked' = [asked EXCEPT ![fd].fcntls = Narrow(@, list)]
      BY <2>1, <2>5
    <3>2. asked'[fd] = [asked[fd] EXCEPT !.fcntls = Narrow(@, list)]
      BY <1>0, <3>1
    <3> QED BY <1>0, <3>1, <3>2 DEF Limits
  <2>6. CASE ~entered /\ ~HasSlot(fd) /\ Fail
    BY <2>6, LayeredIdle DEF Fail, shim, kernel, ghosts
  <2>7. CASE /\ ~entered
             /\ limit' = [limit EXCEPT ![fd].fcntls = lim_merge(@, list)]
             /\ UNCHANGED <<tool, entered>>
    <3>1. \A g \in Fds : limit'[g].ioctls = limit[g].ioctls
      BY <1>0, <2>7 DEF Limits
    <3>2. \A g \in Fds : asked'[g].ioctls = asked[g].ioctls
      BY <1>0, <2>5, <2>7
    <3> QED BY <2>7, <3>1, <3>2 DEF Layered, LayersFaithful, CutNarrows, Allowed
  <2>8. CASE /\ entered
             /\ Load(<<ArgsLayer(SYS_fcntl, <<fd>>,
                         [f \in Fds |-> IF f = fd THEN list ELSE Unrestricted])>>)
             /\ UNCHANGED <<disabled, shim, fds, reused, landlock>>
    <3> DEFINE l == OneArg(fd, SYS_fcntl, list)
    <3>1. /\ l \in Seq(Layers)
          /\ \A g \in Fds : \A c :
                /\ AllPass(l, SYS_fcntl, g, c) <=> (g = fd => c \in list)
                /\ AllPass(l, SYS_ioctl, g, c)
                /\ ~AnyStops(l, g, c)
      <4>1. list \in SUBSET (IoctlCmds \cup FcntlCmds) /\ SYS_fcntl \in Nat
            /\ SYS_fcntl # SYS_ioctl
        BY <2>2 DEF SYS_ioctl, SYS_fcntl
      <4>2. \A g \in Fds : \A nr, c :
               /\ l \in Seq(Layers)
               /\ AllPass(l, nr, g, c) <=> (SYS_fcntl = nr /\ g = fd => c \in list)
               /\ ~AnyStops(l, g, c)
        BY <4>1, OneArgDecides
      <4> HIDE DEF l
      <4> QED BY <4>1, <4>2
    <3>2. Load(l) /\ entered' = entered
      BY <2>8 DEF shim, OneArg
    <3> HIDE DEF l
    <3>3. ASSUME tool' = "running", NEW g \in Fds
          PROVE  /\ \A c \in IoctlCmds :
                      LET both == AllPass(l, SYS_ioctl, g, c) /\ Allowed(asked[g].ioctls, c)
                      IN /\ both => Allowed(asked'[g].ioctls, c)
                         /\ g \notin cut' /\ Allowed(asked'[g].ioctls, c) => both
                 /\ \A c \in FcntlCmds :
                      Allowed(asked'[g].fcntls, c) <=>
                         AllPass(l, SYS_fcntl, g, c) /\ Allowed(asked[g].fcntls, c)
                 /\ \A c \in Classes :
                      c \in asked'[g].deny <=> AnyStops(l, g, c) \/ c \in asked[g].deny
      <4>1. CASE g # fd
        <5>1. asked'[g] = asked[g]
          BY <2>5, <3>3, <4>1
        <5> QED BY <3>1, <4>1, <5>1
      <4>2. CASE g = fd
        <5>1. asked'[g].ioctls = asked[g].ioctls /\ asked'[g].deny = asked[g].deny
          BY <2>5, <3>3, <4>2
        <5>2. \A c : Allowed(asked'[g].fcntls, c)
                       <=> Allowed(asked[g].fcntls, c) /\ c \in list
          BY <2>4, <2>5, <3>3, <4>2
        <5>3. \A c : /\ AllPass(l, SYS_fcntl, g, c) <=> c \in list
                     /\ AllPass(l, SYS_ioctl, g, c) /\ ~AnyStops(l, g, c)
          BY <3>1, <4>2
        <5> QED BY <5>1, <5>2, <5>3
      <4> QED BY <4>1, <4>2
    <3> QED BY <1>0, <2>3, <2>8, <3>1, <3>2, <3>3, LayeredStack
  <2>9. SYS_fcntl # SYS_ioctl
    BY DEF SYS_fcntl, SYS_ioctl
  <2> QED BY <2>1, <2>6, <2>7, <2>8, <2>9 DEF ArgLimit
<1> QED BY <1>1, <1>2

\* Entering: the flushed registry is what was asked for, and an fd the registry
\* does not hold was asked nothing of.
LEMMA LayeredEnter ==
    ASSUME IInv, Layered, NEW m \in Modes, EnterMode(m)
    PROVE  Layered'
<1>0. TypeOK /\ tool = "running"
  BY DEF IInv, EnterMode
<1>1. CASE SkipEnter /\ Noop
  BY <1>1, LayeredIdle DEF Noop, vars, shim, kernel, ghosts
<1>2. CASE ~SkipEnter /\ Fail
  BY <1>2, LayeredIdle DEF Fail, shim, kernel, ghosts
<1>3. CASE /\ ~SkipEnter
           /\ Load(<<NsLayer(m)>> \o flush_registered_limits)
           /\ entered' = (tool' = "running")
           /\ UNCHANGED <<limit, ghosts>>
  <2>1. tool' = "running" => entered'
    BY <1>3
  <2>2. CutNarrows'
    BY <2>1 DEF CutNarrows
  <2> SUFFICES ASSUME tool' = "running" PROVE LayersFaithful'
    BY <2>2 DEF Layered, LayersFaithful
  <2> DEFINE rest == flush_registered_limits
             ns == NsLayer(m)
             l == <<ns>> \o rest
  <2>3. rest \in Seq(Layers) /\ ns \in Layers /\ Load(l)
    <3>1. ns \in Layers
      BY <1>0, LayerTypes DEF TypeOK
    <3> QED BY <1>0, <1>3, <3>1, FlushType
  <2>4. asked' = asked /\ cut' = cut /\ limit' = limit
    BY <1>3 DEF ghosts
  <2>5. ~entered /\ filters = << >> /\ filters \in Seq(Layers)
    BY <1>0, <1>3 DEF IInv, AllOrNothing, SkipEnter, TypeOK
  <2>6. \A nr, g, c : Passes(ns, nr, g, c) /\ ~Stops(ns, g, c)
    BY LayersDecide, Zenon
  <2>7. \A g \in Fds : \A c :
          /\ AllPass(rest, SYS_ioctl, g, c)
                <=> (g \in Range(order) => Allowed(limit[g].ioctls, c))
          /\ AllPass(rest, SYS_fcntl, g, c)
                <=> (g \in Range(order) => Allowed(limit[g].fcntls, c))
          /\ AnyStops(rest, g, c) <=> g \in Range(order) /\ c \in limit[g].deny
    BY <1>0, FlushDecides
  <2> HIDE DEF rest, ns
  <2>8. <<ns>> \in Seq(Layers) /\ <<ns>> = When(TRUE, ns)
    BY <2>3 DEF When
  <2>9. l \in Seq(Layers)
    BY <2>3, <2>8, ConcatProperties
  <2>10. filters' = l
    <3> HIDE DEF l
    <3>1. filters' = filters \o l
      BY <2>3, <2>5, <2>9, LoadStacks
    <3> QED BY <2>5, <2>9, <3>1, ConcatEmptySeq
  <2>11. \A nr, g, c : /\ AllPass(l, nr, g, c) <=> AllPass(rest, nr, g, c)
                       /\ AnyStops(l, g, c) <=> AnyStops(rest, g, c)
    <3> SUFFICES ASSUME NEW nr, NEW g, NEW c
                 PROVE  /\ AllPass(l, nr, g, c) <=> AllPass(rest, nr, g, c)
                        /\ AnyStops(l, g, c) <=> AnyStops(rest, g, c)
      OBVIOUS
    <3> DEFINE one == <<ns>>
    <3>1. /\ AllPass(one, nr, g, c) <=> (TRUE => Passes(ns, nr, g, c))
          /\ AnyStops(one, g, c) <=> TRUE /\ Stops(ns, g, c)
      BY <2>3, <2>8, StackOne
    <3>2. one \in Seq(Layers)
      BY <2>8
    <3> HIDE DEF one
    <3>3. /\ AllPass(one \o rest, nr, g, c)
                <=> AllPass(one, nr, g, c) /\ AllPass(rest, nr, g, c)
          /\ AnyStops(one \o rest, g, c) <=> AnyStops(one, g, c) \/ AnyStops(rest, g, c)
      BY <2>3, <3>2, StackBoth
    <3> QED BY <2>6, <3>1, <3>3, Zenon DEF one
  <2>12. ASSUME NEW g \in Fds
         PROVE  /\ limit[g].deny = asked[g].deny /\ limit[g].fcntls = asked[g].fcntls
                /\ g \notin cut => limit[g].ioctls = asked[g].ioctls
                /\ \A c \in IoctlCmds :
                      Allowed(limit[g].ioctls, c) => Allowed(asked[g].ioctls, c)
                /\ g \notin Range(order) =>
                      asked[g].deny = {} /\ asked[g].ioctls = Unrestricted
                      /\ asked[g].fcntls = Unrestricted
    <3>1. \A c \in IoctlCmds : Allowed(limit[g].ioctls, c) => Allowed(asked[g].ioctls, c)
      BY <1>0, <2>5 DEF Layered, CutNarrows
    <3>2. /\ limit[g].deny = asked[g].deny /\ limit[g].fcntls = asked[g].fcntls
          /\ g \notin cut => limit[g].ioctls = asked[g].ioctls
          /\ (\A i \in 1..Len(order) : order[i] # g) => asked[g] = Fresh
      BY <1>0, <2>5 DEF IInv, RegistryFaithful
    <3>3. g \notin Range(order) => \A i \in 1..Len(order) : order[i] # g
      BY <1>0, LenProperties DEF TypeOK, Range
    <3> QED BY <3>1, <3>2, <3>3 DEF Fresh
  <2> HIDE DEF l
  <2>13. ASSUME NEW g \in Fds
         PROVE  /\ \A c \in IoctlCmds :
                     /\ AllPass(l, SYS_ioctl, g, c) => Allowed(asked[g].ioctls, c)
                     /\ g \notin cut /\ Allowed(asked[g].ioctls, c)
                          => AllPass(l, SYS_ioctl, g, c)
                /\ \A c \in FcntlCmds :
                     AllPass(l, SYS_fcntl, g, c) <=> Allowed(asked[g].fcntls, c)
                /\ \A c \in Classes : AnyStops(l, g, c) <=> c \in asked[g].deny
    <3>1. CASE g \in Range(order)
      BY <2>7, <2>11, <2>12, <3>1
    <3>2. CASE g \notin Range(order)
      BY <2>7, <2>11, <2>12, <3>2 DEF Allowed
    <3> QED BY <3>1, <3>2
  <2> QED BY <2>4, <2>10, <2>13
          DEF LayersFaithful, AllPass, AnyStops, Passes, Stops, Allowed
<1> QED BY <1>1, <1>2, <1>3 DEF EnterMode

\* Nothing is limited, and nothing asked for, when the tool starts.
LEMMA InitLayered == Init => Layered
BY DEF Init, Layered, LayersFaithful, CutNarrows

\* Every call keeps layers and requests in step.
LEMMA NextLayered == IInv /\ Layered /\ [Next]_vars => Layered'
<1> SUFFICES ASSUME IInv, Layered, [Next]_vars PROVE Layered'
  OBVIOUS
<1>1. ASSUME NEW m \in Modes, EnterMode(m) PROVE Layered'
  BY <1>1, LayeredEnter
<1>2. ASSUME NEW fd \in Fds, NEW r \in RightsSets, caph_rights_limit(fd, r)
      PROVE  Layered'
  <2>1. CASE Noop
    BY <2>1, LayeredIdle DEF Noop, vars, shim, kernel, ghosts
  <2> QED BY <1>2, <2>1, LayeredRights DEF caph_rights_limit
<1>3. ASSUME NEW fd \in Fds, NEW fl \in StreamFlags, caph_limit_stream(fd, fl)
      PROVE  Layered'
  <2>1. CASE Noop
    BY <2>1, LayeredIdle DEF Noop, vars, shim, kernel, ghosts
  <2> QED BY <1>3, <2>1, LayeredRights DEF caph_limit_stream
<1>4. ASSUME NEW fd \in Fds, NEW cmds \in IoctlLists, caph_ioctls_limit(fd, cmds)
      PROVE  Layered'
  BY <1>4, LayeredIoctls
<1>5. ASSUME NEW fd \in Fds, NEW fr \in FcntlRights, caph_fcntls_limit(fd, fr)
      PROVE  Layered'
  BY <1>5, LayeredFcntls
<1>6. ASSUME NEW fd \in Fds, NEW k \in {"file", "dir"}, NEW dir \in Dirs, Open(fd, k, dir)
      PROVE  Layered'
  BY <1>6, LayeredIdle DEF Open, shim, kernel, ghosts
<1>7. ASSUME NEW fd \in Fds, Close(fd) PROVE Layered'
  BY <1>7, LayeredIdle DEF Close, shim, kernel, ghosts
<1>8. ASSUME NEW dir \in Dirs, caph_allow_path(dir) PROVE Layered'
  <2>1. CASE Noop
    BY <2>1, LayeredIdle DEF Noop, vars, shim, kernel, ghosts
  <2>2. CASE Fail
    BY <2>2, LayeredIdle DEF Fail, shim, kernel, ghosts
  <2>3. CASE UNCHANGED <<tool, limit, entered, kernel, ghosts>>
    BY <2>3, LayeredIdle DEF kernel, ghosts
  <2> QED BY <1>8, <2>1, <2>2, <2>3 DEF caph_allow_path
<1>9. CASE UNCHANGED vars
  BY <1>9, LayeredIdle DEF vars, shim, kernel, ghosts
<1> QED BY <1>1, <1>2, <1>3, <1>4, <1>5, <1>6, <1>7, <1>8, <1>9 DEF Next

\* Inside the sandbox, the layers loaded by entering and by every later call let pass
\* the ioctl and fcntl commands, and stop the classes of calls, that the limit calls
\* asked for so far, on every fd (flush_registered_limits, caph_rights_limit,
\* caph_ioctls_limit, caph_fcntls_limit).  That the programs of a layer decide what the
\* layer says is shown further down.
THEOREM LayersAreFaithful == Spec => []LayersFaithful
<1>1. Layered => LayersFaithful
  BY DEF Layered
<1> QED BY <1>1, InitLayered, NextLayered, ShimInvariance, PTL DEF Spec

-----------------------------------------------------------------------------
(* Where the file system can be reached.                                   *)

\* The ranges of lookup_fds[].
LEMMA LookupRange ==
    ASSUME TypeOK, NEW fd \in Fds
    PROVE  /\ Range(lookup) \subseteq Fds
           /\ Range(Append(lookup, fd)) = Range(lookup) \cup {fd}
<1>1. lookup \in Seq(Fds)
  BY DEF TypeOK
<1> DEFINE n == Len(lookup)
           a == Append(lookup, fd)
<1>2. n \in Nat /\ DOMAIN lookup = 1..n /\ \A i \in 1..n : lookup[i] \in Fds
  BY <1>1, LenProperties, ElementOfSeq
<1>3. /\ DOMAIN a = 1..(n + 1) /\ a[n + 1] = fd
      /\ \A i \in 1..n : a[i] = lookup[i]
  BY <1>1, AppendProperties, LenProperties
<1> HIDE DEF a, n
<1>4. 1..(n + 1) = (1..n) \cup {n + 1}
  BY <1>2
<1> QED BY <1>2, <1>3, <1>4 DEF Range, a

\* A step that registers no directory and leaves the descriptors alone.
LEMMA ConfinedKept ==
    ASSUME Confined, tool' \in {tool, "exited"},
           UNCHANGED <<lookup, entered, mode, landlock, looked, reused>>,
           entered => allow' = allow,
           ~entered => fds' = fds
    PROVE  Confined'
<1>0. Kept' = Kept /\ LookupNumbers' = LookupNumbers
  BY DEF Kept, LookupNumbers
<1>1. LookupFaithful'
  BY <1>0 DEF Confined, LookupFaithful
<1>2. DomainFaithful'
  <2> SUFFICES ASSUME tool' = "running", entered PROVE DomainFaithful'
    BY DEF DomainFaithful
  <2>1. tool = "running" /\ allow' = allow
    OBVIOUS
  <2> QED BY <1>0, <2>1 DEF Confined, DomainFaithful, PlacesOf
<1> QED BY <1>1, <1>2 DEF Confined

\* A refused or skipped call registers no directory.
LEMMA ConfinedIdle ==
    ASSUME Confined, Fail \/ UNCHANGED vars PROVE Confined'
<1>1. /\ tool' \in {tool, "exited"} /\ allow' = allow /\ fds' = fds
      /\ UNCHANGED <<lookup, entered, mode, landlock, looked, reused>>
  BY DEF Fail, vars, shim, kernel, ghosts
<1> QED BY <1>1, ConfinedKept

\* caph_rights_limit: CAP_LOOKUP puts a directory in lookup_fds[] while there is room.
LEMMA ConfinedRights ==
    ASSUME TypeOK, Confined, tool = "running", NEW fd \in Fds, NEW r, RightsLimit(fd, r)
    PROVE  Confined'
<1>1. CASE RightsRefused(fd, r) /\ Fail
  BY <1>1, ConfinedIdle
<1>2. CASE /\ ~RightsRefused(fd, r) /\ ~entered
           /\ lookup' = IF "LOOKUP" \in r /\ Len(lookup) < LOOKUP_MAX
                          THEN Append(lookup, fd) ELSE lookup
           /\ AskRights(fd, r)
           /\ UNCHANGED <<disabled, tool, entered, mode, allow, fds, reused, kernel>>
  <2> DEFINE new == [fd |-> fd, at |-> fds[fd].at]
             room == Len(lookup) < LOOKUP_MAX
  <2>0. /\ ~entered /\ ~entered' /\ tool' = "running" /\ fds' = fds /\ reused' = reused
    BY <1>2
  <2>1. looked' = IF "LOOKUP" \in r THEN looked \cup {new} ELSE looked
    BY <1>2 DEF AskRights
  <2>2. DomainFaithful'
    BY <2>0 DEF DomainFaithful
  <2>3. CASE "LOOKUP" \notin r
    <3>1. lookup' = lookup /\ looked' = looked
      BY <1>2, <2>1, <2>3
    <3>2. Kept' = Kept /\ LookupNumbers' = LookupNumbers
      BY <2>0, <3>1 DEF Kept, LookupNumbers
    <3>3. LookupFaithful'
      BY <2>0, <3>1, <3>2 DEF Confined, LookupFaithful
    <3> QED BY <2>2, <3>3 DEF Confined
  <2>4. CASE "LOOKUP" \in r
    <3>1. fds[fd].kind = "dir" /\ looked' = looked \cup {new}
      BY <1>2, <2>1, <2>4 DEF RightsRefused
    <3>2. /\ Range(lookup') = IF room THEN Range(lookup) \cup {fd} ELSE Range(lookup)
          /\ Len(lookup') < LOOKUP_MAX => room
      <4>1. Range(Append(lookup, fd)) = Range(lookup) \cup {fd}
        BY LookupRange
      <4>2. Len(Append(lookup, fd)) = Len(lookup) + 1 /\ Len(lookup) \in Nat
            /\ LOOKUP_MAX \in Nat
        BY ConstantsAssumption, LenProperties, AppendProperties DEF TypeOK
      <4>3. CASE room
        BY <1>2, <2>4, <4>1, <4>3
      <4>4. CASE ~room
        BY <1>2, <2>4, <4>4
      <4> QED BY <4>3, <4>4
    <3> DEFINE open == \A u \in reused : u.fd # fd
    <3>3. /\ LookupNumbers' = LookupNumbers \cup {fd}
          /\ open => Kept' = Kept \cup {new}
          /\ ~open => Kept' = Kept
      <4>2. Kept' = {l \in looked \cup {new} : \A u \in reused : u.fd # l.fd}
        BY <2>0, <3>1 DEF Kept
      <4>3. new.fd = fd
        OBVIOUS
      <4> HIDE DEF new
      <4>1. LookupNumbers' = LookupNumbers \cup {fd}
        <5>1. LookupNumbers' = {l.fd : l \in looked \cup {new}}
          BY <3>1 DEF LookupNumbers
        <5> QED BY <4>3, <5>1, Zenon DEF LookupNumbers
      <4> QED BY <4>1, <4>2, <4>3 DEF Kept
    <3>4. /\ Range(lookup) \subseteq LookupNumbers
          /\ room => LookupNumbers \subseteq Range(lookup)
          /\ \A u \in reused : u.fd \in Range(lookup)
          /\ \A f \in Range(lookup) : fds[f].kind = "dir" =>
               \/ [fd |-> f, at |-> fds[f].at] \in reused
               \/ [fd |-> f, at |-> fds[f].at] \in Kept
          /\ \A l \in Kept :
               l.fd \in Range(lookup) /\ fds[l.fd].kind = "dir" => fds[l.fd].at = l.at
      BY <2>0 DEF Confined, LookupFaithful
    <3>5. fd \notin Range(lookup) => open
      BY <3>4
    <3>6. Kept \subseteq looked /\ \A l \in Kept : l.fd \in LookupNumbers
      BY DEF Kept, LookupNumbers
    <3> DEFINE R == Range(lookup)
               Q == Range(lookup')
    <3> HIDE DEF room, open, R, Q
    <3>7. /\ Q \subseteq LookupNumbers'
          /\ Len(lookup') < LOOKUP_MAX => LookupNumbers' \subseteq Q
          /\ \A u \in reused' : u.fd \in Q
      BY <2>0, <3>2, <3>3, <3>4 DEF R, Q
    <3>8. ASSUME NEW f \in Q, fds[f].kind = "dir"
          PROVE  \/ [fd |-> f, at |-> fds[f].at] \in reused
                 \/ [fd |-> f, at |-> fds[f].at] \in Kept'
      <4>1. CASE f \in R
        BY <3>3, <3>4, <3>8, <4>1 DEF R
      <4>2. CASE f = fd /\ f \notin R
        BY <3>3, <3>5, <4>2 DEF R
      <4> QED BY <3>2, <3>8, <4>1, <4>2 DEF R, Q
    <3>9. ASSUME NEW l \in Kept', l.fd \in Q, fds[l.fd].kind = "dir"
          PROVE  fds[l.fd].at = l.at
      <4>1. CASE l = new
        BY <4>1
      <4>2. CASE l \in Kept /\ l.fd \in R
        BY <3>4, <3>9, <4>2 DEF R
      <4>3. CASE l \in Kept /\ l.fd \notin R
        <5>1. room
          BY <3>2, <3>9, <4>3 DEF R, Q
        <5> QED BY <3>4, <3>6, <4>3, <5>1 DEF R
      <4> QED BY <3>3, <4>1, <4>2, <4>3
    <3>10. LookupFaithful'
      BY <2>0, <3>7, <3>8, <3>9 DEF LookupFaithful, Q
    <3> QED BY <2>2, <3>10 DEF Confined
  <2> QED BY <2>3, <2>4
<1>3. CASE /\ ~RightsRefused(fd, r) /\ entered
           /\ Load(RightsLayers(fd, r))
           /\ IF tool' = "running" THEN AskRights(fd, r) ELSE UNCHANGED ghosts
           /\ UNCHANGED <<disabled, shim, fds, reused, landlock>>
  <2>1. looked' = looked
    BY <1>3 DEF RightsRefused, AskRights, ghosts
  <2>2. UNCHANGED <<lookup, entered, mode, landlock, allow>>
    BY <1>3 DEF shim
  <2>3. tool' \in {tool, "exited"}
    BY <1>3 DEF Load
  <2> QED BY <1>3, <2>1, <2>2, <2>3, ConfinedKept
<1> QED BY <1>1, <1>2, <1>3 DEF RightsLimit

\* caph_ioctls_limit and caph_fcntls_limit register no directory.
LEMMA ConfinedArgs ==
    ASSUME Confined, NEW fd \in Fds, NEW n, NEW list, ArgLimit(fd, n, list), looked' = looked
    PROVE  Confined'
<1>1. /\ tool' \in {tool, "exited"} /\ fds' = fds /\ reused' = reused
      /\ UNCHANGED <<lookup, entered, mode, landlock, allow>>
  BY DEF ArgLimit, Fail, Load, shim, kernel
<1> QED BY <1>1, ConfinedKept

\* Opening on a free number: before entering, a directory on a number of
\* lookup_fds[] is remembered.
LEMMA ConfinedOpen ==
    ASSUME TypeOK, Confined, NEW fd \in Fds, NEW k \in {"file", "dir"}, NEW dir \in Dirs,
           Open(fd, k, dir)
    PROVE  Confined'
<1>1. /\ tool' = tool /\ allow' = allow /\ fds[fd].kind = "closed"
      /\ UNCHANGED <<lookup, entered, mode, landlock, looked>>
      /\ \A g \in Fds : g # fd => fds'[g] = fds[g]
      /\ fds'[fd] = IF k = "dir" THEN DirAt(dir) ELSE File
      /\ reused' = IF k = "dir" /\ ~entered /\ fd \in Range(lookup)
                     THEN reused \cup {[fd |-> fd, at |-> dir]} ELSE reused
  BY DEF Open, shim, kernel, ghosts, TypeOK
<1>2. CASE entered
  BY <1>1, <1>2, ConfinedKept
<1>3. CASE ~entered
  <2>1. DomainFaithful'
    BY <1>1, <1>3 DEF DomainFaithful
  <2>2. LookupFaithful'
    <3> SUFFICES ASSUME tool = "running" PROVE LookupFaithful'
      BY <1>1 DEF LookupFaithful
    <3>1. /\ Range(lookup) \subseteq LookupNumbers
          /\ Len(lookup) < LOOKUP_MAX => LookupNumbers \subseteq Range(lookup)
          /\ \A u \in reused : u.fd \in Range(lookup)
          /\ \A f \in Range(lookup) : fds[f].kind = "dir" =>
               \/ [fd |-> f, at |-> fds[f].at] \in reused
               \/ [fd |-> f, at |-> fds[f].at] \in Kept
          /\ \A l \in Kept :
               l.fd \in Range(lookup) /\ fds[l.fd].kind = "dir" => fds[l.fd].at = l.at
      BY <1>3 DEF Confined, LookupFaithful
    <3>2. Range(lookup) \subseteq Fds /\ LookupNumbers' = LookupNumbers
      BY <1>1, LookupRange DEF LookupNumbers
    <3>3. /\ Kept' \subseteq Kept
          /\ \A l \in Kept : l.fd # fd => l \in Kept'
          /\ \A l \in looked : l.fd \in Fds
      BY <1>1 DEF Kept, TypeOK
    <3>4. k # "dir" => fds'[fd].kind # "dir"
      BY <1>1 DEF File
    <3>5. k = "dir" => fds'[fd].at = dir
      BY <1>1 DEF DirAt
    <3> DEFINE R == Range(lookup)
    <3> HIDE DEF R
    <3>6. \A u \in reused' : u.fd \in R
      BY <1>1, <3>1 DEF R
    <3>7. ASSUME NEW f \in R, fds'[f].kind = "dir"
          PROVE  \/ [fd |-> f, at |-> fds'[f].at] \in reused'
                 \/ [fd |-> f, at |-> fds'[f].at] \in Kept'
      <4>1. CASE f = fd
        BY <1>1, <1>3, <3>4, <3>5, <3>7, <4>1 DEF R
      <4>2. CASE f # fd
        BY <1>1, <3>1, <3>2, <3>3, <3>7, <4>2 DEF R
      <4> QED BY <4>1, <4>2
    <3>8. ASSUME NEW l \in Kept', l.fd \in R, fds'[l.fd].kind = "dir"
          PROVE  fds'[l.fd].at = l.at
      <4>1. CASE l.fd = fd
        <5>1. k = "dir"
          BY <3>4, <3>8, <4>1
        <5>2. \E u \in reused' : u.fd = fd
          <6>1. [fd |-> fd, at |-> dir] \in reused'
            BY <1>1, <1>3, <3>8, <4>1, <5>1 DEF R
          <6>2. [fd |-> fd, at |-> dir].fd = fd
            OBVIOUS
          <6> QED BY <6>1, <6>2
        <5> QED BY <4>1, <5>2 DEF Kept
      <4>2. CASE l.fd # fd
        BY <1>1, <3>1, <3>2, <3>3, <3>8, <4>2 DEF R
      <4> QED BY <4>1, <4>2
    <3>9. lookup' = lookup /\ R = Range(lookup)
      BY <1>1 DEF R
    <3> QED BY <3>1, <3>2, <3>6, <3>7, <3>8, <3>9 DEF LookupFaithful
  <2> QED BY <2>1, <2>2 DEF Confined
<1> QED BY <1>2, <1>3

\* Closing: a number of lookup_fds[] may name no directory any more.
LEMMA ConfinedClose ==
    ASSUME TypeOK, Confined, NEW fd \in Fds, Close(fd)
    PROVE  Confined'
<1>1. /\ tool' = tool /\ allow' = allow /\ reused' = reused
      /\ UNCHANGED <<lookup, entered, mode, landlock, looked>>
      /\ \A g \in Fds : g # fd => fds'[g] = fds[g]
      /\ fds'[fd].kind # "dir"
  BY DEF Close, Closed, shim, kernel, ghosts, TypeOK
<1>2. CASE entered
  BY <1>1, <1>2, ConfinedKept
<1>3. CASE ~entered
  <2>1. DomainFaithful'
    BY <1>1, <1>3 DEF DomainFaithful
  <2>2. LookupFaithful'
    <3>1. /\ Kept' = Kept /\ LookupNumbers' = LookupNumbers
          /\ Range(lookup) \subseteq Fds
      BY <1>1, LookupRange DEF Kept, LookupNumbers
    <3> QED BY <1>1, <1>3, <3>1 DEF Confined, LookupFaithful
  <2> QED BY <2>1, <2>2 DEF Confined
<1> QED BY <1>2, <1>3

\* enter_mode: the rules are made of the directories registered by then.
LEMMA ConfinedEnter ==
    ASSUME TypeOK, Confined, NEW m \in Modes, EnterMode(m)
    PROVE  Confined'
<1>1. CASE SkipEnter /\ Noop
  BY <1>1, ConfinedIdle DEF Noop
<1>2. CASE ~SkipEnter /\ Fail
  BY <1>2, ConfinedIdle
<1>3. CASE /\ ~SkipEnter
           /\ RulesOk(m)
           /\ landlock' = landlock_lockdown(m)
           /\ entered' = (tool' = "running")
           /\ mode' = m
           /\ UNCHANGED <<disabled, order, limit, lookup, allow, fds, reused, calls, ghosts>>
  <2>1. tool' = "running" => entered'
    BY <1>3
  <2>2. LookupFaithful'
    BY <2>1 DEF LookupFaithful
  <2>3. /\ looked' = looked /\ lookup' = lookup /\ allow' = allow /\ mode' = m
        /\ reused' = reused /\ tool = "running" /\ ~entered /\ DOMAIN lookup = 1..Len(lookup)
    BY <1>3, LenProperties DEF ghosts, EnterMode, SkipEnter, TypeOK
  <2>4. landlock' = [handled |-> IF m = MODE_CASPER THEN {"mutate"} ELSE {"mutate", "read"},
                     beneath |-> Beneath(m)]
    BY <1>3 DEF landlock_lockdown
  <2>5. CASE m = MODE_FULL
    <3>1. /\ landlock'.handled = {"mutate", "read"}
          /\ landlock'.beneath = {fds[lookup[i]].at : i \in 1..Len(lookup)}
      BY <2>3, <2>4, <2>5 DEF Beneath, MODE_FULL, MODE_CASPER, MODE_PATHS
    <3>2. \A f \in Range(lookup) : fds[f].kind = "dir"
      BY <1>3, <2>5 DEF RulesOk, Range
    <3>3. landlock'.beneath = {fds[f].at : f \in Range(lookup)}
      BY <2>3, <3>1 DEF Range
    <3>4. /\ Kept' = Kept /\ LookupNumbers' = LookupNumbers
          /\ PlacesOf(Kept \cup reused)' = PlacesOf(Kept \cup reused)
      BY <2>3 DEF Kept, LookupNumbers, PlacesOf
    <3>4a. /\ landlock'.beneath \subseteq PlacesOf(Kept \cup reused)
           /\ Range(lookup) \subseteq LookupNumbers
           /\ \A l \in Kept : l.fd \in Range(lookup) => l.at \in landlock'.beneath
      <4>1. ASSUME NEW f \in Range(lookup)
            PROVE  fds[f].at \in PlacesOf(Kept \cup reused)
        <5>1. [fd |-> f, at |-> fds[f].at] \in Kept \cup reused
          BY <2>3, <3>2, <4>1 DEF Confined, LookupFaithful
        <5> QED BY <5>1 DEF PlacesOf
      <4>2. ASSUME NEW l \in Kept, l.fd \in Range(lookup)
            PROVE  l.at \in landlock'.beneath
        <5>1. fds[l.fd].at = l.at
          BY <2>3, <3>2, <4>2 DEF Confined, LookupFaithful
        <5> QED BY <3>3, <4>2, <5>1
      <4>3. Range(lookup) \subseteq LookupNumbers
        BY <2>3 DEF Confined, LookupFaithful
      <4> QED BY <3>3, <4>1, <4>2, <4>3
    <3>5. DomainFaithful'
      <4>1. mode' # MODE_PATHS /\ mode' # MODE_CASPER
        BY <2>3, <2>5 DEF MODE_FULL, MODE_CASPER, MODE_PATHS
      <4> QED BY <2>3, <3>1, <3>4, <3>4a, <4>1 DEF DomainFaithful
    <3> QED BY <2>2, <3>5 DEF Confined
  <2>6. CASE m = MODE_PATHS
    <3>1. DomainFaithful'
      BY <2>3, <2>4, <2>6
         DEF DomainFaithful, Beneath, Range, MODE_FULL, MODE_CASPER, MODE_PATHS
    <3> QED BY <2>2, <3>1 DEF Confined
  <2>7. CASE m = MODE_CASPER
    <3>1. DomainFaithful'
      BY <2>3, <2>4, <2>7
         DEF DomainFaithful, Beneath, Range, MODE_FULL, MODE_CASPER, MODE_PATHS
    <3> QED BY <2>2, <3>1 DEF Confined
  <2> QED BY <2>5, <2>6, <2>7 DEF Modes
<1> QED BY <1>1, <1>2, <1>3 DEF EnterMode

\* Every step keeps the registered directories and the domain in step.
LEMMA NextConfined == TypeOK /\ Confined /\ [Next]_vars => Confined'
<1> SUFFICES ASSUME TypeOK, Confined, [Next]_vars PROVE Confined'
  OBVIOUS
<1>1. ASSUME NEW m \in Modes, EnterMode(m) PROVE Confined'
  BY <1>1, ConfinedEnter
<1>2. ASSUME NEW fd \in Fds, NEW r \in RightsSets, caph_rights_limit(fd, r)
      PROVE  Confined'
  BY <1>2, ConfinedIdle, ConfinedRights DEF caph_rights_limit, Noop
<1>3. ASSUME NEW fd \in Fds, NEW fl \in StreamFlags, caph_limit_stream(fd, fl)
      PROVE  Confined'
  BY <1>3, ConfinedIdle, ConfinedRights DEF caph_limit_stream, Noop
<1>4. ASSUME NEW fd \in Fds, NEW cmds \in IoctlLists, caph_ioctls_limit(fd, cmds)
      PROVE  Confined'
  <2>1. CASE disabled
    BY <1>4, <2>1, ConfinedIdle DEF caph_ioctls_limit, Noop
  <2>2. CASE ~disabled
    <3>1. PICK list : ArgLimit(fd, SYS_ioctl, list) /\ looked' = looked
      BY <1>4, <2>2 DEF caph_ioctls_limit, ghosts
    <3> QED BY <3>1, ConfinedArgs
  <2> QED BY <2>1, <2>2
<1>5. ASSUME NEW fd \in Fds, NEW fr \in FcntlRights, caph_fcntls_limit(fd, fr)
      PROVE  Confined'
  <2>1. CASE disabled
    BY <1>5, <2>1, ConfinedIdle DEF caph_fcntls_limit, Noop
  <2>2. CASE ~disabled
    <3>1. PICK list : ArgLimit(fd, SYS_fcntl, list) /\ looked' = looked
      BY <1>5, <2>2 DEF caph_fcntls_limit, ghosts
    <3> QED BY <3>1, ConfinedArgs
  <2> QED BY <2>1, <2>2
<1>6. ASSUME NEW fd \in Fds, NEW k \in {"file", "dir"}, NEW dir \in Dirs, Open(fd, k, dir)
      PROVE  Confined'
  BY <1>6, ConfinedOpen
<1>7. ASSUME NEW fd \in Fds, Close(fd) PROVE Confined'
  BY <1>7, ConfinedClose
<1>8. ASSUME NEW dir \in Dirs, caph_allow_path(dir) PROVE Confined'
  <2>1. CASE Noop \/ Fail
    BY <2>1, ConfinedIdle DEF Noop
  <2>2. CASE ~entered /\ UNCHANGED <<tool, lookup, entered, mode, fds, reused, kernel, ghosts>>
    BY <2>2, ConfinedKept DEF kernel, ghosts
  <2> QED BY <1>8, <2>1, <2>2 DEF caph_allow_path
<1>9. CASE UNCHANGED vars
  BY <1>9, ConfinedIdle
<1> QED BY <1>1, <1>2, <1>3, <1>4, <1>5, <1>6, <1>7, <1>8, <1>9 DEF Next

\* Once a tool has entered, its Landlock domain and the descriptors of its namespace
\* program cover what the mode promises and nothing else, whatever it registered,
\* opened and closed before (enter_mode, landlock_lockdown, caph_rights_limit,
\* caph_allow_path); less only for a number that found lookup_fds[] full, and another
\* directory only where one was opened on a registered number before entering.
THEOREM DomainIsFaithful == Spec => []DomainFaithful
<1>1. Init => Confined
  <2> SUFFICES ASSUME Init PROVE Confined
    OBVIOUS
  <2>1. /\ lookup = << >> /\ looked = {} /\ reused = {} /\ ~entered
        /\ Range(lookup) = {} /\ LookupNumbers = {} /\ Kept = {}
    BY DEF Init, Range, LookupNumbers, Kept
  <2> QED BY <2>1 DEF Confined, LookupFaithful, DomainFaithful
<1>2. Confined => DomainFaithful
  BY DEF Confined
<1> QED BY <1>1, <1>2, NextConfined, ShimTypes, PTL DEF Spec

-----------------------------------------------------------------------------
(* What the programs in force answer, by the layers they are loaded from.  *)

\* Every program of the layer lets the call pass.
LayerAllows(l, d) ==
    \A k \in 1..Len(LayerPrograms(l)) : Run(LayerPrograms(l)[k], d) = ALLOW

\* A call passes a stack of stacks exactly if it passes each of them.
LEMMA FlattenAllows ==
    ASSUME NEW S, NEW seqs \in Seq(Seq(S)), NEW d
    PROVE  Allows(FlattenSeq(seqs), d) <=>
              \A i \in 1..Len(seqs) : \A k \in 1..Len(seqs[i]) : Run(seqs[i][k], d) = ALLOW
<1> DEFINE f == FlattenSeq(seqs)
           n == Len(seqs)
<1>1. f \in Seq(S)
  BY FlattenOrigin
<1>2. PICK org : Origin(f, org, seqs, n)
  BY FlattenOrigin
<1> HIDE DEF f, n
<1>3. DOMAIN f = 1..Len(f)
  BY <1>1
<1>4. /\ org \in [1..Len(f) -> 1..n]
      /\ \A j \in 1..Len(f) : \E k \in 1..Len(seqs[org[j]]) : f[j] = seqs[org[j]][k]
      /\ \A i \in 1..n : \A k \in 1..Len(seqs[i]) :
            \E j \in 1..Len(f) : org[j] = i /\ f[j] = seqs[i][k]
  BY <1>2 DEF Origin
<1>5. ASSUME Allows(f, d), NEW i \in 1..n, NEW k \in 1..Len(seqs[i])
      PROVE  Run(seqs[i][k], d) = ALLOW
  <2>1. PICK j \in 1..Len(f) : f[j] = seqs[i][k]
    BY <1>4
  <2> QED BY <1>3, <1>5, <2>1 DEF Allows
<1>6. ASSUME \A i \in 1..n : \A k \in 1..Len(seqs[i]) : Run(seqs[i][k], d) = ALLOW,
             NEW j \in 1..Len(f)
      PROVE  Run(f[j], d) = ALLOW
  <2>1. org[j] \in 1..n
    BY <1>4
  <2>2. PICK k \in 1..Len(seqs[org[j]]) : f[j] = seqs[org[j]][k]
    BY <1>4
  <2> QED BY <1>6, <2>1, <2>2
<1> QED BY <1>3, <1>5, <1>6 DEF Allows, f, n

\* The fields of a layer.
LEMMA LayerFields ==
    ASSUME NEW l \in Layers
    PROVE  /\ l.kind \in {"ns", "deny", "args"} /\ l.mode \in Modes /\ l.nr \in Nat
           /\ l.order \in Seq(Fds) /\ l.order \in Seq(Int)
           /\ l.deny \in [Fds -> SUBSET Classes] /\ l.lists \in [Fds -> Lists]
<1>1. Fds \subseteq Int
  BY ConstantsAssumption
<1>2. l.order \in Seq(Fds)
  BY DEF Layers
<1>3. l.order \in Seq(Int)
  <2> DEFINE o == l.order
  <2>1. o \in Seq(Fds)
    BY <1>2
  <2> HIDE DEF o
  <2>2. \A i \in 1..Len(o) : o[i] \in Int
    <3>1. \A i \in 1..Len(o) : o[i] \in Fds
      BY <2>1
    <3> QED BY <1>1, <3>1
  <2>3. o = [i \in 1..Len(o) |-> o[i]] /\ Len(o) \in Nat
    BY <2>1
  <2>4. o \in Seq(Int)
    BY <2>2, <2>3
  <2> QED BY <2>4 DEF o
<1> QED BY <1>2, <1>3 DEF Layers, Lists

\* The sequence e of entries of a layer: each stands for a call of a class its fd is
\* denied, in the order of the fds, and every such call has one.
EntriesFrom(e, org, l) ==
    /\ e \in Seq(DenyEnts) /\ org \in [1..Len(e) -> 1..Len(l.order)]
    /\ \A j \in 1..Len(e) :
         \E c \in Classes : \E nr \in Range(ClassCalls[c]) :
            /\ c \in l.deny[l.order[org[j]]] /\ e[j] = EntryOf(l.order[org[j]], nr)
    /\ \A i \in 1..Len(l.order), c \in Classes : c \in l.deny[l.order[i]] =>
         \A nr \in Range(ClassCalls[c]) :
            \E j \in 1..Len(e) : org[j] = i /\ e[j] = EntryOf(l.order[i], nr)
    /\ \A j, k \in 1..Len(e) : j <= k => org[j] <= org[k]

\* The entries of a layer come fd by fd, in the order of the layer.
LEMMA EntriesShape ==
    ASSUME NEW l \in Layers
    PROVE  \E org : EntriesFrom(Entries(l), org, l)
<1> DEFINE o == l.order
           n == Len(o)
           s == [i \in 1..n |-> FdEntries(o[i], l.deny[o[i]])]
           e == Entries(l)
<1>1. o \in Seq(Int) /\ n \in Nat
  BY LayerFields
<1>2. e = FlattenSeq(s)
  BY DEF Entries
<1> HIDE DEF o
<1>3. ASSUME NEW i \in 1..n PROVE Built(FdEntries(o[i], l.deny[o[i]]), o[i], l.deny[o[i]], Classes)
  <2>1. o[i] \in Int
    BY <1>1
  <2> QED BY <2>1, FdEntriesBuilt
<1>4. s \in Seq(Seq(DenyEnts)) /\ Len(s) = n
  <2>1. \A i \in 1..n : FdEntries(o[i], l.deny[o[i]]) \in Seq(DenyEnts)
    BY <1>3 DEF Built
  <2> QED BY <1>1, <2>1
<1>5. \A i \in 1..n : Built(s[i], o[i], l.deny[o[i]], Classes)
  BY <1>3
<1> HIDE DEF s, e, n
<1>6. e \in Seq(DenyEnts)
  BY <1>2, <1>4, FlattenOrigin
<1>7. PICK org : Origin(e, org, s, n)
  BY <1>2, <1>4, FlattenOrigin
<1>8. /\ org \in [1..Len(e) -> 1..n]
      /\ \A j \in 1..Len(e) : \E k \in 1..Len(s[org[j]]) : e[j] = s[org[j]][k]
      /\ \A i \in 1..n : \A k \in 1..Len(s[i]) :
            \E j \in 1..Len(e) : org[j] = i /\ e[j] = s[i][k]
      /\ \A j, k \in 1..Len(e) : j <= k => org[j] <= org[k]
  BY <1>7 DEF Origin
<1>9. ASSUME NEW j \in 1..Len(e)
      PROVE  \E c \in Classes : \E nr \in Range(ClassCalls[c]) :
                c \in l.deny[o[org[j]]] /\ e[j] = EntryOf(o[org[j]], nr)
  <2> DEFINE i == org[j]
  <2>1. i \in 1..n
    BY <1>8
  <2>2. PICK k \in 1..Len(s[i]) : e[j] = s[i][k]
    BY <1>8
  <2> HIDE DEF i
  <2>3. Built(s[i], o[i], l.deny[o[i]], Classes)
    BY <1>5, <2>1
  <2>4. PICK c \in Classes \cap l.deny[o[i]] : \E nr \in Range(ClassCalls[c]) :
            s[i][k] = EntryOf(o[i], nr)
    BY <2>3 DEF Built
  <2> QED BY <2>2, <2>4 DEF i
<1>10. ASSUME NEW i \in 1..n, NEW c \in Classes, c \in l.deny[o[i]],
              NEW nr \in Range(ClassCalls[c])
       PROVE  \E j \in 1..Len(e) : org[j] = i /\ e[j] = EntryOf(o[i], nr)
  <2>1. Built(s[i], o[i], l.deny[o[i]], Classes) /\ c \in Classes \cap l.deny[o[i]]
    BY <1>5, <1>10
  <2>2. PICK k \in 1..Len(s[i]) : s[i][k] = EntryOf(o[i], nr)
    BY <2>1 DEF Built
  <2> QED BY <1>8, <2>2
<1>11. EntriesFrom(e, org, l)
  BY <1>6, <1>8, <1>9, <1>10 DEF EntriesFrom, o, n
<1> QED BY <1>11 DEF e

\* Dividing by the size of a chunk.
LEMMA Divided ==
    ASSUME NEW a \in Nat, NEW b \in Nat \ {0}
    PROVE  /\ a \div b \in Nat /\ (a \div b) * b <= a /\ a < (a \div b + 1) * b
OBVIOUS

\* Every chunk is a run of consecutive entries, short enough for its jumps, and every
\* entry is in one.
Within(ch, off, e) ==
    /\ off \in Nat /\ ch \in Seq(DenyEnts) /\ off + Len(ch) <= Len(e)
    /\ \A i \in 1..Len(ch) : ch[i] = e[off + i]

\* The chunks are stretches of at most FLUSH_CHUNK entries that cover all of them.
LEMMA ChunksShape ==
    ASSUME NEW e \in Seq(DenyEnts)
    PROVE  /\ Len(Chunks(e)) \in Nat
           /\ \A k \in 1..Len(Chunks(e)) :
                Chunk(Chunks(e)[k]) /\ \E off \in Nat : Within(Chunks(e)[k], off, e)
           /\ \A j \in 1..Len(e) : \E k \in 1..Len(Chunks(e)) : \E off \in Nat :
                Within(Chunks(e)[k], off, e) /\ j - off \in 1..Len(Chunks(e)[k])
<1> DEFINE b == FLUSH_CHUNK
           m == Len(e)
           q == (m + b - 1) \div b
           Lo(k) == (k - 1) * b
           Hi(k) == IF k * b < m THEN k * b ELSE m
           C(k) == SubSeq(e, Lo(k) + 1, Hi(k))
<1>1. b \in Nat /\ b >= 16 /\ 3 * b - 2 < 256 /\ m \in Nat
  BY ConstantsAssumption
<1>2. Chunks(e) = [k \in 1..q |-> C(k)]
  BY DEF Chunks
<1> HIDE DEF b, m
<1>3. q \in Nat /\ q * b <= m + b - 1 /\ m + b - 1 < (q + 1) * b
  <2>1. m + b - 1 \in Nat /\ b \in Nat \ {0}
    BY <1>1
  <2> QED BY <2>1, Divided
<1> HIDE DEF q
<1>4. ASSUME NEW k \in 1..q
      PROVE  /\ Lo(k) \in Nat /\ Hi(k) \in Nat /\ Lo(k) <= Hi(k) /\ Hi(k) <= m
             /\ Hi(k) - Lo(k) <= b /\ k * b = Lo(k) + b
  <2>1. k * b = Lo(k) + b /\ Lo(k) \in Nat /\ k * b \in Nat
    BY <1>1, <1>3
  <2>2. k * b <= q * b
    BY <1>1, <1>3
  <2>3. q * b \in Nat
    BY <1>1, <1>3
  <2> DEFINE kb == k * b
             qb == q * b
             lo == Lo(k)
  <2> HIDE DEF kb, qb, lo
  <2>4. kb = lo + b /\ lo \in Nat /\ kb \in Nat /\ kb <= qb /\ qb \in Nat /\ qb <= m + b - 1
    BY <1>3, <2>1, <2>2, <2>3 DEF kb, qb, lo
  <2>5. Hi(k) = IF kb < m THEN kb ELSE m
    BY DEF kb
  <2> HIDE DEF Hi
  <2>6. /\ lo \in Nat /\ Hi(k) \in Nat /\ lo <= Hi(k) /\ Hi(k) <= m
        /\ Hi(k) - lo <= b
    BY <1>1, <2>4, <2>5
  <2> QED BY <2>1, <2>6 DEF lo
<1>5. ASSUME NEW k \in 1..q
      PROVE  Chunk(C(k)) /\ Within(C(k), Lo(k), e) /\ Len(C(k)) = Hi(k) - Lo(k)
  <2> DEFINE lo == Lo(k)
             hi == Hi(k)
             c == SubSeq(e, lo + 1, hi)
  <2>1. lo \in Nat /\ hi \in Nat /\ lo <= hi /\ hi <= m /\ hi - lo <= b
    BY <1>4
  <2> HIDE DEF lo, hi
  <2>2. /\ c \in Seq(DenyEnts) /\ Len(c) = hi - lo
        /\ \A i \in 1..(hi - lo) : c[i] = e[lo + i]
    BY <2>1 DEF m
  <2>3. Len(c) \in Nat /\ 3 * Len(c) - 2 < 256 /\ lo + Len(c) <= m
    BY <1>1, <2>1, <2>2
  <2> HIDE DEF c
  <2>4. Chunk(c) /\ Within(c, lo, e) /\ Len(c) = hi - lo
    BY <2>1, <2>2, <2>3 DEF Chunk, Within, m
  <2> QED BY <2>4 DEF c, lo, hi
<1>6. ASSUME NEW j \in 1..m
      PROVE  \E k \in 1..q : j - Lo(k) \in 1..(Hi(k) - Lo(k))
  <2> DEFINE r == (j - 1) \div b
             k == r + 1
             rb == r * b
  <2>1. r \in Nat /\ rb <= j - 1 /\ j - 1 < (r + 1) * b
    <3>1. j - 1 \in Nat /\ b \in Nat \ {0}
      BY <1>1
    <3> QED BY <3>1, Divided
  <2> HIDE DEF r
  <2>2. rb \in Nat /\ (r + 1) * b = rb + b /\ Lo(k) = rb
    BY <1>1, <2>1
  <2>3. ASSUME ~(k <= q) PROVE FALSE
    <3>1. q + 1 <= k /\ q + 1 \in Nat
      BY <1>3, <2>1, <2>3
    <3>2. (q + 1) * b <= k * b
      BY <1>1, <2>1, <3>1
    <3>3. k * b = rb + b /\ (q + 1) * b \in Nat
      BY <1>1, <1>3, <2>2
    <3> DEFINE qb == (q + 1) * b
    <3> HIDE DEF qb, rb
    <3>4. qb \in Nat /\ qb <= rb + b /\ m + b - 1 < qb /\ rb <= j - 1
      BY <1>3, <2>1, <3>2, <3>3 DEF qb
    <3> QED BY <1>1, <2>2, <3>4
  <2>4. k \in 1..q
    BY <1>3, <2>1, <2>3
  <2>5. k * b = rb + b
    BY <2>2
  <2> HIDE DEF k, rb
  <2>6. Hi(k) = IF rb + b < m THEN rb + b ELSE m
    BY <2>5
  <2> HIDE DEF Lo, Hi
  <2>7. j - Lo(k) \in 1..(Hi(k) - Lo(k))
    BY <1>1, <2>1, <2>2, <2>6 DEF k
  <2> QED BY <2>4, <2>7
<1> HIDE DEF C, Lo, Hi
<1>7. Len(Chunks(e)) = q /\ \A k \in 1..q : Chunks(e)[k] = C(k)
  BY <1>2, <1>3
<1> QED BY <1>3, <1>4, <1>5, <1>6, <1>7 DEF m

\* The programs of a deny layer are its chunks; a call with a number of no class passes.
LEMMA DenyPrograms ==
    ASSUME NEW l \in Layers, l.kind = "deny"
    PROVE  LET c == Chunks(Entries(l)) IN
           /\ Len(LayerPrograms(l)) = Len(c)
           /\ \A k \in 1..Len(c) : LayerPrograms(l)[k] = install_entry_chunk(c[k])
           /\ LayerPrograms(l) \in Seq(Seq(Instrs))
<1> DEFINE c == Chunks(Entries(l))
<1>1. LayerPrograms(l) = [k \in 1..Len(c) |-> install_entry_chunk(c[k])]
  BY DEF LayerPrograms
<1>2. PICK org : EntriesFrom(Entries(l), org, l)
  BY EntriesShape
<1>3. Entries(l) \in Seq(DenyEnts)
  BY <1>2 DEF EntriesFrom
<1>4. Len(c) \in Nat /\ \A k \in 1..Len(c) : Chunk(c[k])
  BY <1>3, ChunksShape
<1> HIDE DEF c
<1>5. ASSUME NEW k \in 1..Len(c) PROVE install_entry_chunk(c[k]) \in Seq(Instrs)
  <2>1. Chunk(c[k])
    BY <1>4
  <2>2. [native |-> TRUE, nr |-> 0, args |-> [n \in 0..4 |-> 0]] \in SysCalls
    BY DEF SysCalls
  <2>3. Runnable(install_entry_chunk(c[k]))
    BY <2>1, <2>2, DoEnds
  <2> QED BY <2>3 DEF Runnable, Fits
<1> QED BY <1>1, <1>4, <1>5 DEF c

\* A rights layer lets every call pass that belongs to no class.
LEMMA DenyLets ==
    ASSUME NEW l \in Layers, l.kind = "deny", NEW d \in SysCalls, d.native,
           \A c \in Classes : d.nr \notin Range(ClassCalls[c])
    PROVE  LayerAllows(l, d)
<1> DEFINE e == Entries(l)
           c == Chunks(e)
<1>1. PICK org : EntriesFrom(e, org, l)
  BY EntriesShape
<1>2. e \in Seq(DenyEnts)
  BY <1>1 DEF EntriesFrom
<1>3. ASSUME NEW j \in 1..Len(e) PROVE e[j].nr # d.nr
  <2>1. PICK k \in Classes : \E nr \in Range(ClassCalls[k]) : e[j] = EntryOf(l.order[org[j]], nr)
    BY <1>1 DEF EntriesFrom
  <2>2. PICK nr \in Range(ClassCalls[k]) : e[j] = EntryOf(l.order[org[j]], nr)
    BY <2>1
  <2>3. e[j].nr = nr
    BY <2>2 DEF EntryOf
  <2> QED BY <2>3
<1>4. /\ Len(LayerPrograms(l)) = Len(c)
      /\ \A k \in 1..Len(c) : LayerPrograms(l)[k] = install_entry_chunk(c[k])
  BY DenyPrograms
<1>5. \A k \in 1..Len(c) : Chunk(c[k]) /\ \E off \in Nat : Within(c[k], off, e)
  BY <1>2, ChunksShape
<1> HIDE DEF e, c
<1>6. ASSUME NEW k \in 1..Len(c) PROVE Run(install_entry_chunk(c[k]), d) = ALLOW
  <2> DEFINE h == c[k]
  <2>1. Chunk(h)
    BY <1>5
  <2>2. PICK off \in Nat : Within(h, off, e)
    BY <1>5
  <2> HIDE DEF h
  <2>3. ASSUME NEW i \in 1..Len(h) PROVE h[i].nr # d.nr
    <3>1. h[i] = e[off + i] /\ off + i \in 1..Len(e)
      BY <1>2, <2>2 DEF Within
    <3> QED BY <1>3, <3>1
  <2>4. Run(install_entry_chunk(h), d) = ALLOW
    BY <2>1, <2>3, ChunkPasses
  <2> QED BY <2>4 DEF h
<1> QED BY <1>4, <1>6 DEF LayerAllows

\* The call of number nr on fd.
LEMMA FdCallFields ==
    ASSUME NEW nr \in Int, NEW fd \in Fds
    PROVE  /\ FdCall(nr, fd) \in SysCalls /\ FdCall(nr, fd).native
           /\ FdCall(nr, fd).nr = nr /\ FdCall(nr, fd).args[FdArg(nr)] = fd
<1>1. fd \in Int
  BY ConstantsAssumption
<1>2. FdArg(nr) \in 0..4
  BY DEF FdArg
<1>3. NoArgs \in [0..4 -> Int]
  BY DEF NoArgs
<1> QED BY <1>1, <1>2, <1>3 DEF FdCall, SysCalls

\* A class denied to an fd is enforced by the layer unless an fd before it is denied the
\* class too.
LEMMA DenyStops ==
    ASSUME NEW l \in Layers, l.kind = "deny", NEW q \in 1..Len(l.order), NEW c \in Classes,
           c \in l.deny[l.order[q]],
           \A g \in 1..(q - 1) : c \notin l.deny[l.order[g]],
           NEW nr \in Range(ClassCalls[c])
    PROVE  ~LayerAllows(l, FdCall(nr, l.order[q]))
<1> DEFINE e == Entries(l)
           cs == Chunks(e)
           fd == l.order[q]
           d == FdCall(nr, fd)
<1>0. nr \in Int /\ fd \in Fds /\ Len(l.order) \in Nat
  BY ClassesApart, LayerFields
<1>1. PICK org : EntriesFrom(e, org, l)
  BY EntriesShape
<1>2. e \in Seq(DenyEnts) /\ org \in [1..Len(e) -> 1..Len(l.order)] /\ Len(e) \in Nat
  BY <1>1 DEF EntriesFrom
<1>3. PICK j \in 1..Len(e) : org[j] = q /\ e[j] = EntryOf(fd, nr)
  <2> HIDE DEF e
  <2>1. \A i \in 1..Len(l.order), b \in Classes : b \in l.deny[l.order[i]] =>
          \A n \in Range(ClassCalls[b]) :
             \E j \in 1..Len(e) : org[j] = i /\ e[j] = EntryOf(l.order[i], n)
    BY <1>1 DEF EntriesFrom
  <2> QED BY <2>1
<1>4. /\ Len(LayerPrograms(l)) = Len(cs)
      /\ \A k \in 1..Len(cs) : LayerPrograms(l)[k] = install_entry_chunk(cs[k])
  BY DenyPrograms
<1>5. PICK k \in 1..Len(cs) : \E off \in Nat :
         Chunk(cs[k]) /\ Within(cs[k], off, e) /\ j - off \in 1..Len(cs[k])
  BY <1>2, ChunksShape
<1> DEFINE h == cs[k]
<1>6. PICK off \in Nat : Chunk(h) /\ Within(h, off, e) /\ j - off \in 1..Len(h)
  BY <1>5
<1>7. d \in SysCalls /\ d.native /\ d.nr = nr /\ d.args[FdArg(nr)] = fd
  BY <1>0, FdCallFields
<1> HIDE DEF e, cs, d, h
<1> DEFINE S == {i \in 1..Len(h) : h[i].nr = nr}
<1>8. /\ \A i \in 1..Len(h) : h[i] = e[off + i] /\ off + i \in 1..Len(e)
      /\ Len(h) \in Nat
  BY <1>2, <1>6 DEF Within
<1>9. j - off \in S
  <2>1. h[j - off] = e[off + (j - off)] /\ off + (j - off) = j
    BY <1>2, <1>6, <1>8
  <2>2. h[j - off].nr = nr
    BY <1>3, <2>1 DEF EntryOf
  <2> QED BY <1>6, <2>2
<1>10. PICK i \in S : \A t \in S : i <= t
  <2>1. S \in SUBSET Nat /\ S # {}
    BY <1>8, <1>9
  <2> HIDE DEF S
  <2> QED BY <2>1, LeastExists
<1>11. i \in 1..Len(h) /\ h[i].nr = nr /\ i <= j - off
  BY <1>9, <1>10
<1>12. \A t \in 1..(i - 1) : h[t].nr # nr
  <2> SUFFICES ASSUME NEW t \in 1..(i - 1), h[t].nr = nr PROVE FALSE
    OBVIOUS
  <2>1. t \in 1..Len(h) /\ ~(i <= t)
    BY SMTT(30), <1>8, <1>11
  <2>2. t \in S
    BY <2>1
  <2> QED BY <1>10, <2>1, <2>2
<1> DEFINE x == off + i
           g == org[x]
<1>13. x \in 1..Len(e) /\ x <= j /\ h[i] = e[x]
  BY <1>2, <1>6, <1>8, <1>11
<1> HIDE DEF x, S
<1>14. g \in 1..Len(l.order) /\ g <= q
  <2>1. org[x] <= org[j]
    BY <1>1, <1>13 DEF EntriesFrom
  <2> QED BY <1>2, <1>3, <1>13, <2>1
<1>15. PICK c2 \in Classes : \E n2 \in Range(ClassCalls[c2]) :
          c2 \in l.deny[l.order[g]] /\ e[x] = EntryOf(l.order[g], n2)
  BY <1>1, <1>13 DEF EntriesFrom
<1>16. PICK n2 \in Range(ClassCalls[c2]) :
          c2 \in l.deny[l.order[g]] /\ e[x] = EntryOf(l.order[g], n2)
  BY <1>15
<1>17. n2 = nr
  BY <1>11, <1>13, <1>16 DEF EntryOf
<1>18. c2 = c
  BY <1>16, <1>17, ClassesApart
<1> HIDE DEF g
<1>19. g = q
  <2>1. ~(g \in 1..(q - 1))
    BY <1>16, <1>18
  <2> QED BY <1>0, <1>14, <2>1
<1>20. h[i] = EntryOf(fd, nr)
  BY <1>13, <1>16, <1>17, <1>19
<1>21. EntryArg(d, h[i]) = h[i].fd
  BY <1>7, <1>20 DEF EntryArg, EntryOf
<1>22. Run(install_entry_chunk(h), d) = EPERM
  BY <1>6, <1>7, <1>11, <1>12, <1>21, ChunkDenies
<1>23. EPERM # ALLOW
  BY DEF EPERM, ALLOW
<1> QED BY <1>4, <1>22, <1>23 DEF LayerAllows, d, h

\* An args layer that is not refused: its program, and what it passes.
ArgSound(l) ==
    /\ l.kind = "args" /\ ~Refused(l)
    /\ \A i, j \in 1..Len(l.order) : l.order[i] = l.order[j] => i = j

\* Its blocks grant a call exactly what the layer's lists allow.
LEMMA BlocksShape ==
    ASSUME NEW l \in Layers,
           \A i, j \in 1..Len(l.order) : l.order[i] = l.order[j] => i = j
    PROVE  LET b == Blocks(l) IN
           /\ b \in Seq(ArgBlks) /\ Distinct(b)
           /\ \A d \in SysCalls :
                (\A i \in 1..Len(b) : Grants(b[i], d)) <=>
                   \A fd \in Range(l.order) :
                      d.args[0] = fd => Allowed(l.lists[fd], d.args[1])
<1> DEFINE o == l.order
           n == Len(o)
           B(i) == IF l.lists[o[i]] = Unrestricted THEN << >> ELSE <<ArgBlock(l, o[i])>>
           s == [i \in 1..n |-> B(i)]
           b == Blocks(l)
<1>1. o \in Seq(Fds) /\ n \in Nat /\ o \in Seq(Int) /\ l.lists \in [Fds -> Lists]
  BY LayerFields
<1>2. b = FlattenSeq(s)
  BY DEF Blocks, BlocksOf
<1>3. \A i, j \in 1..n : o[i] = o[j] => i = j
  OBVIOUS
<1>4. ASSUME NEW i \in 1..n, l.lists[o[i]] # Unrestricted
      PROVE  /\ ArgBlock(l, o[i]) \in ArgBlks
             /\ ArgBlock(l, o[i]).fd = o[i]
             /\ Range(ArgBlock(l, o[i]).list) = l.lists[o[i]]
  <2> DEFINE S == l.lists[o[i]]
             q == SetToSeq(S)
  <2>1. o[i] \in Int /\ o[i] \in Fds
    <3> HIDE DEF o
    <3> QED BY <1>1
  <2>2. S \in SUBSET (IoctlCmds \cup FcntlCmds)
    <3> HIDE DEF o
    <3> QED BY <1>1, <1>4, <2>1 DEF Lists
  <2>3. IsFiniteSet(IoctlCmds) /\ IoctlCmds \subseteq Int /\ FcntlCmds \subseteq Int
    BY ConstantsAssumption DEF FcntlCmds, F_DUPFD, F_GETFD, F_SETFD, F_GETFL, F_SETFL
  <2>4. IsFiniteSet(FcntlCmds)
    <3>1. FcntlCmds \subseteq 0..4
      BY DEF FcntlCmds, F_DUPFD, F_GETFD, F_SETFD, F_GETFL, F_SETFL
    <3>2. IsFiniteSet(0..4)
      <4> DEFINE z == 0
                 u == 4
      <4>1. z \in Int /\ u \in Int
        OBVIOUS
      <4> HIDE DEF z, u
      <4>2. IsFiniteSet(z..u)
        BY <4>1, FS_Interval
      <4> QED BY <4>2 DEF z, u
    <3> QED BY <3>1, <3>2, FS_Subset
  <2>5. IsFiniteSet(S)
    <3> HIDE DEF S
    <3>1. IsFiniteSet(IoctlCmds \cup FcntlCmds)
      BY <2>3, <2>4, FS_Union
    <3> QED BY <2>2, <3>1, FS_Subset
  <2> HIDE DEF S, o
  <2>6. q \in Seq(S) /\ Range(q) = S
    BY <2>5, SetAsSeq
  <2> HIDE DEF q
  <2>7. q \in Seq(Int)
    <3>1. S \subseteq Int
      BY <2>2, <2>3
    <3>2. \A t \in 1..Len(q) : q[t] \in S
      BY <2>6
    <3>3. q = [t \in 1..Len(q) |-> q[t]] /\ Len(q) \in Nat
      BY <2>6
    <3>4. \A t \in 1..Len(q) : q[t] \in Int
      BY <3>1, <3>2
    <3> QED BY <3>3, <3>4
  <2>8. ArgBlock(l, o[i]) = [fd |-> o[i], list |-> q]
    BY DEF ArgBlock, q, S
  <2> QED BY <2>1, <2>6, <2>7, <2>8 DEF ArgBlks, S
<1>5. s \in Seq(Seq(ArgBlks)) /\ Len(s) = n
  <2>1. ASSUME NEW i \in 1..n PROVE B(i) \in Seq(ArgBlks)
    <3>1. CASE l.lists[o[i]] = Unrestricted
      BY <3>1
    <3>2. CASE l.lists[o[i]] # Unrestricted
      <4> DEFINE a == ArgBlock(l, o[i])
      <4>1. a \in ArgBlks
        BY <1>4, <3>2
      <4> HIDE DEF a
      <4>2. <<a>> \in Seq(ArgBlks)
        BY <4>1
      <4> QED BY <3>2, <4>2 DEF a
    <3> QED BY <3>1, <3>2
  <2> HIDE DEF B, o
  <2> QED BY <1>1, <2>1
<1>6. ASSUME NEW i \in 1..n
      PROVE  /\ l.lists[o[i]] = Unrestricted => s[i] = << >>
             /\ l.lists[o[i]] # Unrestricted => s[i] = <<ArgBlock(l, o[i])>>
  OBVIOUS
<1> HIDE DEF o, n, s, b
<1>7. b \in Seq(ArgBlks) /\ Len(b) \in Nat
  BY <1>2, <1>5, FlattenOrigin
<1>8. PICK org : Origin(b, org, s, n)
  BY <1>2, <1>5, FlattenOrigin
<1>9. /\ org \in [1..Len(b) -> 1..n]
      /\ \A j \in 1..Len(b) : \E k \in 1..Len(s[org[j]]) : b[j] = s[org[j]][k]
      /\ \A i \in 1..n : \A k \in 1..Len(s[i]) :
            \E j \in 1..Len(b) : org[j] = i /\ b[j] = s[i][k]
      /\ \A j, k \in 1..Len(b) : org[j] = org[k] /\ Len(s[org[j]]) <= 1 => j = k
  BY <1>8 DEF Origin
<1>10. ASSUME NEW j \in 1..Len(b)
       PROVE  /\ org[j] \in 1..n /\ l.lists[o[org[j]]] # Unrestricted
              /\ b[j] = ArgBlock(l, o[org[j]]) /\ Len(s[org[j]]) <= 1
  <2> DEFINE i == org[j]
  <2>1. i \in 1..n
    BY <1>9
  <2>2. PICK k \in 1..Len(s[i]) : b[j] = s[i][k]
    BY <1>9
  <2> HIDE DEF i
  <2>3. l.lists[o[i]] # Unrestricted
    <3> SUFFICES ASSUME l.lists[o[i]] = Unrestricted PROVE FALSE
      OBVIOUS
    <3>1. s[i] = << >>
      BY <1>6, <2>1
    <3>2. Len(s[i]) = 0
      BY <3>1
    <3> QED BY <2>2, <3>2
  <2> DEFINE a == ArgBlock(l, o[i])
  <2>4. s[i] = <<a>>
    BY <1>6, <2>1, <2>3
  <2> HIDE DEF a
  <2>5. Len(s[i]) = 1 /\ s[i][1] = a
    BY <2>4
  <2>6. b[j] = a
    BY <2>2, <2>5
  <2> QED BY <2>1, <2>3, <2>5, <2>6 DEF i, a
<1>11. ASSUME NEW i \in 1..n, l.lists[o[i]] # Unrestricted
       PROVE  \E j \in 1..Len(b) : b[j] = ArgBlock(l, o[i])
  <2> DEFINE a == ArgBlock(l, o[i])
  <2>1. s[i] = <<a>>
    BY <1>6, <1>11
  <2> HIDE DEF a
  <2>2. Len(s[i]) = 1 /\ s[i][1] = a /\ 1 \in 1..Len(s[i])
    BY <2>1
  <2>3. PICK j \in 1..Len(b) : b[j] = s[i][1]
    BY SMTT(30), <1>9, <2>2
  <2> QED BY <2>2, <2>3 DEF a
<1>12. Distinct(b)
  <2>1. ASSUME NEW j \in 1..Len(b), NEW k \in 1..Len(b), b[j].fd = b[k].fd PROVE j = k
    <3>1. b[j].fd = o[org[j]] /\ b[k].fd = o[org[k]]
      BY <1>4, <1>10
    <3>2. org[j] = org[k]
      BY <1>3, <1>10, <2>1, <3>1 DEF n, o
    <3> QED BY <1>9, <1>10, <3>2
  <2> QED BY <2>1 DEF Distinct
<1>13. ASSUME NEW d \in SysCalls
       PROVE  (\A j \in 1..Len(b) : Grants(b[j], d)) <=>
                 \A fd \in Range(o) : d.args[0] = fd => Allowed(l.lists[fd], d.args[1])
  <2>1. ASSUME \A j \in 1..Len(b) : Grants(b[j], d), NEW fd \in Range(o), d.args[0] = fd
        PROVE  Allowed(l.lists[fd], d.args[1])
    <3>1. PICK i \in 1..n : o[i] = fd
      BY <1>1 DEF Range, n
    <3>2. CASE l.lists[fd] # Unrestricted
      <4>1. PICK j \in 1..Len(b) : b[j] = ArgBlock(l, o[i])
        BY <1>11, <3>1, <3>2
      <4>2. b[j].fd = fd /\ Range(b[j].list) = l.lists[fd]
        BY <1>4, <3>1, <3>2, <4>1
      <4> QED BY <2>1, <4>2 DEF Grants, Allowed
    <3> QED BY <3>2 DEF Allowed
  <2>2. ASSUME \A fd \in Range(o) : d.args[0] = fd => Allowed(l.lists[fd], d.args[1]),
               NEW j \in 1..Len(b)
        PROVE  Grants(b[j], d)
    <3> DEFINE i == org[j]
    <3>1. /\ i \in 1..n /\ l.lists[o[i]] # Unrestricted /\ b[j] = ArgBlock(l, o[i])
      BY <1>10
    <3> HIDE DEF i
    <3>2. b[j].fd = o[i] /\ Range(b[j].list) = l.lists[o[i]]
      BY <1>4, <3>1
    <3>3. o[i] \in Range(o)
      BY <1>1, <3>1 DEF Range, n
    <3> QED BY <2>2, <3>1, <3>2, <3>3 DEF Grants, Allowed
  <2> QED BY <2>1, <2>2
<1> QED BY <1>7, <1>12, <1>13 DEF b, o

\* A sequence of one program.
LEMMA OneProgram ==
    ASSUME NEW p, Runnable(p), NEW l, LayerPrograms(l) = <<p>>, NEW d
    PROVE  /\ LayerPrograms(l) \in Seq(Seq(Instrs))
           /\ LayerAllows(l, d) <=> Run(p, d) = ALLOW
<1>1. p \in Seq(Instrs)
  BY DEF Runnable, Fits
<1>2. <<p>> \in Seq(Seq(Instrs)) /\ Len(<<p>>) = 1 /\ <<p>>[1] = p
  BY <1>1
<1>3. LayerAllows(l, d) <=> Run(p, d) = ALLOW
  <2> DEFINE q == <<p>>
  <2>1. Len(q) = 1 /\ q[1] = p /\ LayerPrograms(l) = q
    BY <1>2
  <2> HIDE DEF q
  <2>2. LayerAllows(l, d) <=> \A k \in 1..1 : Run(q[k], d) = ALLOW
    BY <2>1 DEF LayerAllows
  <2>3. 1..1 = {1}
    OBVIOUS
  <2> QED BY <2>1, <2>2, <2>3
<1> QED BY <1>2, <1>3

\* An allowlist layer stops its call exactly if the fd has a list without the command.
LEMMA ArgPasses ==
    ASSUME NEW l \in Layers, ArgSound(l), NEW d \in SysCalls, d.native
    PROVE  /\ LayerPrograms(l) \in Seq(Seq(Instrs))
           /\ LayerAllows(l, d) <=>
                (d.nr = l.nr => \A fd \in Range(l.order) :
                                   d.args[0] = fd => Allowed(l.lists[fd], d.args[1]))
<1> DEFINE b == Blocks(l)
           nr == l.nr
           p == install_arg1_limits(nr, b)
           m == Len(Arg1Blocks(b))
           all == \A i \in 1..Len(b) : Grants(b[i], d)
           G == \A fd \in Range(l.order) : d.args[0] = fd => Allowed(l.lists[fd], d.args[1])
<1>1. LayerPrograms(l) = <<p>> /\ ~(Len(p) - 1 > JUMP_BUDGET)
  BY DEF ArgSound, LayerPrograms, Refused, AllowIdx
<1>2. b \in Seq(ArgBlks) /\ Distinct(b) /\ (all <=> G)
  BY BlocksShape DEF ArgSound
<1>3. nr \in Int
  BY LayerFields
<1> HIDE DEF b, nr, G
<1>4. m \in Nat /\ Len(p) = m + 6
  BY <1>2, <1>3, ArgLength
<1> HIDE DEF p, m
<1>5. m < 256
  <2>1. JUMP_BUDGET \in Nat /\ JUMP_BUDGET < 256
    BY ConstantsAssumption
  <2> QED BY <1>1, <1>4, <2>1
<1>6. /\ Runnable(p)
      /\ (d.nr # nr \/ all) => Run(p, d) = ALLOW
      /\ ~(d.nr # nr \/ all) => Run(p, d) = EPERM
  BY <1>2, <1>3, <1>5, ArgAnswer DEF p, m
<1>7. EPERM # ALLOW
  BY DEF EPERM, ALLOW
<1> HIDE DEF all
<1>8. Run(p, d) = ALLOW <=> (d.nr = nr => G)
  BY <1>2, <1>6, <1>7
<1>9. LayerPrograms(l) \in Seq(Seq(Instrs)) /\ (LayerAllows(l, d) <=> Run(p, d) = ALLOW)
  BY <1>1, <1>6, OneProgram
<1> QED BY <1>8, <1>9 DEF nr, G

\* The namespace layer answers as its mode says.
LEMMA NsPasses ==
    ASSUME NEW l \in Layers, l.kind = "ns", Len(l.order) <= LOOKUP_MAX,
           NEW d \in SysCalls, d.native
    PROVE  /\ LayerPrograms(l) \in Seq(Seq(Instrs))
           /\ LayerAllows(l, d) <=> ~NamespaceRefuses(l.mode, l.order, d)
<1> DEFINE o == l.order
           p == install_namespace_filter(l.mode, o)
<1>1. LayerPrograms(l) = <<p>>
  BY DEF LayerPrograms
<1>2. o \in Seq(Int) /\ l.mode \in Modes
  BY LayerFields
<1>3. Len(o) + 3 < 256
  <2> DEFINE n == Len(o)
  <2>1. n \in Nat /\ n <= LOOKUP_MAX
    BY <1>2
  <2>2. LOOKUP_MAX \in Nat /\ LOOKUP_MAX + 3 < 256
    BY ConstantsAssumption
  <2> HIDE DEF n
  <2>3. n + 3 < 256
    BY <2>1, <2>2
  <2> QED BY <2>3 DEF n
<1> HIDE DEF o
<1>4. /\ Runnable(p)
      /\ Run(p, d) = IF NamespaceRefuses(l.mode, o, d) THEN EPERM ELSE ALLOW
  BY <1>2, <1>3, NamespaceAnswer
<1> HIDE DEF p
<1>5. EPERM # ALLOW
  BY DEF EPERM, ALLOW
<1>6. LayerPrograms(l) \in Seq(Seq(Instrs)) /\ (LayerAllows(l, d) <=> Run(p, d) = ALLOW)
  BY <1>1, <1>4, OneProgram
<1> QED BY <1>4, <1>5, <1>6 DEF o

-----------------------------------------------------------------------------
(* What loading keeps true of the layers in force.                         *)

\* A layer whose programs do what it says.
Sound(l) ==
    /\ l.kind = "ns" => Len(l.order) <= LOOKUP_MAX
    /\ l.kind = "args" => ArgSound(l) /\ l.nr \in {SYS_ioctl, SYS_fcntl}

AllSound(s) == \A i \in 1..Len(s) : Sound(s[i])

\* Its programs are programs.
LEMMA SoundPrograms ==
    ASSUME NEW l \in Layers, Sound(l)
    PROVE  LayerPrograms(l) \in Seq(Seq(Instrs))
<1> DEFINE d == [native |-> TRUE, nr |-> 0, args |-> [n \in 0..4 |-> 0]]
<1>1. d \in SysCalls /\ d.native
  BY DEF SysCalls
<1> HIDE DEF d
<1>2. l.kind \in {"ns", "deny", "args"}
  BY LayerFields
<1>3. CASE l.kind = "ns"
  BY <1>1, <1>3, NsPasses DEF Sound
<1>4. CASE l.kind = "deny"
  BY <1>4, DenyPrograms
<1>5. CASE l.kind = "args"
  BY <1>1, <1>5, ArgPasses DEF Sound
<1> QED BY <1>2, <1>3, <1>4, <1>5

\* The stacked programs answer as the layers do, one by one.
LEMMA StackAnswers ==
    ASSUME filters \in Seq(Layers), AllSound(filters), NEW d
    PROVE  /\ Allows(Programs, d) <=> \A i \in 1..Len(filters) : LayerAllows(filters[i], d)
           /\ Allows(FdPrograms, d) <=>
                \A i \in 1..Len(filters) :
                   filters[i].kind # "ns" => LayerAllows(filters[i], d)
<1> DEFINE n == Len(filters)
           L(i) == LayerPrograms(filters[i])
           F(i) == IF filters[i].kind = "ns" THEN << >> ELSE L(i)
           s == [i \in 1..n |-> L(i)]
           t == [i \in 1..n |-> F(i)]
<1>1. n \in Nat /\ \A i \in 1..n : filters[i] \in Layers /\ Sound(filters[i])
  BY DEF AllSound
<1>2. \A i \in 1..n : L(i) \in Seq(Seq(Instrs))
  BY <1>1, SoundPrograms
<1>3. \A i \in 1..n : F(i) \in Seq(Seq(Instrs))
  BY <1>2
<1>4. Programs = FlattenSeq(s) /\ FdPrograms = FlattenSeq(t)
  BY DEF Programs, FdPrograms
<1>5. \A i \in 1..n : LayerAllows(filters[i], d) <=> \A k \in 1..Len(L(i)) : Run(L(i)[k], d) = ALLOW
  BY DEF LayerAllows
<1>6. \A i \in 1..n : /\ filters[i].kind = "ns" => F(i) = << >>
                      /\ filters[i].kind # "ns" => F(i) = L(i)
  OBVIOUS
<1> HIDE DEF L, F
<1>7. /\ s \in Seq(Seq(Seq(Instrs))) /\ Len(s) = n /\ \A i \in 1..n : s[i] = L(i)
      /\ t \in Seq(Seq(Seq(Instrs))) /\ Len(t) = n /\ \A i \in 1..n : t[i] = F(i)
  BY <1>1, <1>2, <1>3
<1> HIDE DEF s, t, n
<1>8. Allows(Programs, d) <=> \A i \in 1..n : \A k \in 1..Len(s[i]) : Run(s[i][k], d) = ALLOW
  BY <1>4, <1>7, FlattenAllows
<1>9. Allows(FdPrograms, d) <=> \A i \in 1..n : \A k \in 1..Len(t[i]) : Run(t[i][k], d) = ALLOW
  BY <1>4, <1>7, FlattenAllows
<1>10. ASSUME NEW i \in 1..n
       PROVE  /\ (\A k \in 1..Len(s[i]) : Run(s[i][k], d) = ALLOW) <=> LayerAllows(filters[i], d)
              /\ (\A k \in 1..Len(t[i]) : Run(t[i][k], d) = ALLOW) <=>
                    (filters[i].kind # "ns" => LayerAllows(filters[i], d))
  <2>1. s[i] = L(i) /\ t[i] = F(i)
    BY <1>7
  <2>2. CASE filters[i].kind = "ns"
    <3>1. t[i] = << >>
      BY <1>6, <2>1, <2>2
    <3>2. Len(t[i]) = 0
      BY <3>1
    <3> QED BY <1>5, <2>1, <2>2, <3>2
  <2>3. CASE filters[i].kind # "ns"
    <3>1. t[i] = L(i)
      BY <1>6, <2>1, <2>3
    <3> QED BY <1>5, <2>1, <2>3, <3>1
  <2> QED BY <2>2, <2>3
<1> QED BY <1>8, <1>9, <1>10 DEF n

\* What entering and later calls load: the namespace program of at most LOOKUP_MAX
\* directories, allowlists that name an fd once, and rights of one fd or of the registry.
Stackable(l, o, lim) ==
    /\ l.kind = "ns" => Len(l.order) <= LOOKUP_MAX
    /\ l.kind = "args" => /\ l.nr \in {SYS_ioctl, SYS_fcntl}
                          /\ \A i, j \in 1..Len(l.order) : l.order[i] = l.order[j] => i = j
    /\ l.kind = "deny" => \/ \E fd \in Fds : l.order = <<fd>>
                          \/ l.order = o /\ \A fd \in Fds : l.deny[fd] = lim[fd].deny

\* Those of them that a limit call can load.
LimitLayers(o, lim) == {l \in Layers : Stackable(l, o, lim) /\ l.kind # "ns"}

\* A layer of its own denies the class to the fd.
LateLayer(s, fd, c) ==
    \E i \in 1..Len(s) : s[i].kind = "deny" /\ s[i].order = <<fd>> /\ c \in s[i].deny[fd]

\* The stack in force: only its first layer is a namespace program, none was refused,
\* and a class denied after entering has a layer of its own.
Stacked ==
    /\ Len(lookup) <= LOOKUP_MAX
    /\ tool = "running" =>
         /\ \A i \in 1..Len(filters) :
              /\ Stackable(filters[i], order, limit) /\ ~Refused(filters[i])
              /\ i > 1 => filters[i].kind # "ns"
         /\ \A fd \in Fds : \A c \in late[fd] : LateLayer(filters, fd, c)

\* On the condition, x comes first.
Starts(P, s, x) == P => Len(s) >= 1 /\ s[1] = x

\* Up to three layers on conditions.
LEMMA ThreeStackable ==
    ASSUME NEW S, NEW x \in S, NEW y \in S, NEW z \in S,
           NEW P \in BOOLEAN, NEW Q \in BOOLEAN, NEW R \in BOOLEAN
    PROVE  /\ When(P, x) \o When(Q, y) \o When(R, z) \in Seq(S)
           /\ Starts(P, When(P, x) \o When(Q, y) \o When(R, z), x)
<1> DEFINE p == When(P, x)
           q == When(Q, y)
           r == When(R, z)
<1>1. p \in Seq(S) /\ q \in Seq(S) /\ r \in Seq(S) /\ (P => Len(p) = 1 /\ p[1] = x)
  BY DEF When
<1> HIDE DEF p, q, r
<1> DEFINE pq == p \o q
<1>2. /\ pq \in Seq(S) /\ Len(pq) = Len(p) + Len(q)
      /\ \A i \in 1..Len(p) : pq[i] = p[i]
  BY <1>1, ConcatProperties
<1>3. Len(p) \in Nat /\ Len(q) \in Nat /\ Len(r) \in Nat
  BY <1>1
<1>4. ASSUME P PROVE Len(pq) >= 1 /\ pq[1] = x
  <2>1. Len(p) = 1 /\ p[1] = x
    BY <1>1, <1>4, Zenon
  <2>2. 1 \in 1..Len(p)
    BY <2>1
  <2> HIDE DEF pq
  <2> QED BY <1>2, <1>3, <2>1, <2>2
<1> HIDE DEF pq
<1> DEFINE s == pq \o r
<1>5. pq \in Seq(S) /\ Len(pq) \in Nat /\ r \in Seq(S)
  BY <1>1, <1>2
<1>6. /\ s \in Seq(S) /\ Len(s) = Len(pq) + Len(r)
      /\ \A i \in 1..Len(pq) : s[i] = pq[i]
  BY <1>5, ConcatProperties
<1>7. ASSUME P PROVE Len(s) >= 1 /\ s[1] = x
  <2>1. Len(pq) >= 1 /\ pq[1] = x
    BY <1>4, <1>7, Zenon
  <2>2. 1 \in 1..Len(pq)
    BY <1>5, <2>1
  <2> HIDE DEF s
  <2> QED BY <1>3, <1>5, <1>6, <2>1, <2>2
<1>8. Starts(P, s, x)
  BY <1>7, Zenon DEF Starts
<1> QED BY <1>6, <1>8, Zenon DEF s, pq, p, q, r

\* The layers of one fd.
LEMMA OneFdStackable ==
    ASSUME NEW o, NEW lim, NEW fd \in Fds
    PROVE  /\ \A d \in [Fds -> SUBSET Classes] :
                 DenyLayer(<<fd>>, d) \in LimitLayers(o, lim)
           /\ \A nr \in {SYS_ioctl, SYS_fcntl}, l \in [Fds -> Lists] :
                 ArgsLayer(nr, <<fd>>, l) \in LimitLayers(o, lim)
<1>1. <<fd>> \in Seq(Fds) /\ SYS_ioctl \in Nat /\ SYS_fcntl \in Nat /\ Len(<<fd>>) = 1
  BY DEF SYS_ioctl, SYS_fcntl
<1>2. ASSUME NEW d \in [Fds -> SUBSET Classes]
      PROVE  DenyLayer(<<fd>>, d) \in LimitLayers(o, lim)
  <2> DEFINE x == DenyLayer(<<fd>>, d)
  <2>1. x \in Layers
    BY <1>1, LayerTypes
  <2>2. x.kind = "deny" /\ x.order = <<fd>>
    BY DEF DenyLayer
  <2> HIDE DEF x
  <2>3. Stackable(x, o, lim)
    BY <2>2 DEF Stackable
  <2>4. x \in LimitLayers(o, lim)
    BY <2>1, <2>2, <2>3 DEF LimitLayers
  <2> QED BY <2>4 DEF x
<1>3. ASSUME NEW nr \in {SYS_ioctl, SYS_fcntl}, NEW l \in [Fds -> Lists]
      PROVE  ArgsLayer(nr, <<fd>>, l) \in LimitLayers(o, lim)
  <2> DEFINE x == ArgsLayer(nr, <<fd>>, l)
  <2>1. x \in Layers
    BY <1>1, LayerTypes
  <2>2. x.kind = "args" /\ x.order = <<fd>> /\ x.nr = nr
    BY DEF ArgsLayer
  <2> HIDE DEF x
  <2>3. \A i, j \in 1..Len(x.order) : i = 1 /\ j = 1
    BY <1>1, <2>2
  <2>4. Stackable(x, o, lim)
    BY <2>2, <2>3 DEF Stackable
  <2>5. x \in LimitLayers(o, lim)
    BY <2>1, <2>2, <2>4 DEF LimitLayers
  <2> QED BY <2>5 DEF x
<1> QED BY <1>2, <1>3

\* The registry's layers.
LEMMA FlushStackable ==
    ASSUME IInv
    PROVE  flush_registered_limits \in Seq(LimitLayers(order, limit))
<1> DEFINE deny   == [g \in Fds |-> limit[g].deny]
           ioctls == [g \in Fds |-> limit[g].ioctls]
           fcntls == [g \in Fds |-> limit[g].fcntls]
           P == \E g \in Range(order) : deny[g] # {}
           Q == \E g \in Range(order) : ioctls[g] # Unrestricted
           R == \E g \in Range(order) : fcntls[g] # Unrestricted
           x == DenyLayer(order, deny)
           y == ArgsLayer(SYS_ioctl, order, ioctls)
           z == ArgsLayer(SYS_fcntl, order, fcntls)
<1>1. flush_registered_limits = When(P, x) \o When(Q, y) \o When(R, z)
  BY DEF flush_registered_limits, When
<1>2. x \in Layers /\ y \in Layers /\ z \in Layers
  <2>1. deny \in [Fds -> SUBSET Classes]
    BY DEF IInv, TypeOK, Limits
  <2>2. ioctls \in [Fds -> Lists] /\ fcntls \in [Fds -> Lists]
    BY DEF IInv, TypeOK, Limits, Lists
  <2>3. order \in Seq(Fds) /\ SYS_ioctl \in Nat /\ SYS_fcntl \in Nat
    BY DEF IInv, TypeOK, SYS_ioctl, SYS_fcntl
  <2> HIDE DEF deny, ioctls, fcntls
  <2>4. \A d \in [Fds -> SUBSET Classes] : DenyLayer(order, d) \in Layers
    BY <2>3, LayerTypes
  <2>5. \A nr \in Nat, l \in [Fds -> Lists] : ArgsLayer(nr, order, l) \in Layers
    BY <2>3, LayerTypes
  <2> QED BY <2>1, <2>2, <2>3, <2>4, <2>5
<1>3. \A g \in Fds : deny[g] = limit[g].deny
  OBVIOUS
<1>4. \A i, j \in 1..Len(order) : order[i] = order[j] => i = j
  BY DEF IInv, RegistryFaithful
<1>5. P \in BOOLEAN /\ Q \in BOOLEAN /\ R \in BOOLEAN
  OBVIOUS
<1> HIDE DEF deny, ioctls, fcntls, P, Q, R
<1>6. /\ x.kind = "deny" /\ x.order = order /\ x.deny = deny
      /\ y.kind = "args" /\ y.order = order /\ y.nr = SYS_ioctl
      /\ z.kind = "args" /\ z.order = order /\ z.nr = SYS_fcntl
  BY DEF DenyLayer, ArgsLayer
<1> HIDE DEF x, y, z
<1>7. Stackable(x, order, limit)
  BY <1>3, <1>6 DEF Stackable
<1>8. Stackable(y, order, limit)
  BY <1>4, <1>6 DEF Stackable
<1>9. Stackable(z, order, limit)
  BY <1>4, <1>6 DEF Stackable
<1> DEFINE S == LimitLayers(order, limit)
<1>10. x \in S /\ y \in S /\ z \in S
  BY <1>2, <1>6, <1>7, <1>8, <1>9 DEF LimitLayers
<1> HIDE DEF S
<1>11. When(P, x) \o When(Q, y) \o When(R, z) \in Seq(S)
  BY <1>5, <1>10, ThreeStackable
<1> QED BY <1>1, <1>11 DEF S

\* The layers of a late caph_rights_limit; the first denies its classes.
LEMMA RightsStackable ==
    ASSUME NEW o, NEW lim, NEW fd \in Fds, NEW r
    PROVE  /\ RightsLayers(fd, r) \in Seq(LimitLayers(o, lim))
           /\ \A c \in DeniedClasses(r) : LateLayer(RightsLayers(fd, r), fd, c)
<1> DEFINE one(v, none) == [f \in Fds |-> IF f = fd THEN v ELSE none]
           deny   == one(DeniedClasses(r), {})
           ioctls == one(SafeIoctls, Unrestricted)
           fcntls == one(safe_fcntls, Unrestricted)
           P == DeniedClasses(r) # {}
           Q == "IOCTL" \notin r
           R == "FCNTL" \notin r
           x == DenyLayer(<<fd>>, deny)
           y == ArgsLayer(SYS_ioctl, <<fd>>, ioctls)
           z == ArgsLayer(SYS_fcntl, <<fd>>, fcntls)
           s == RightsLayers(fd, r)
           S == LimitLayers(o, lim)
<1>1. s = When(P, x) \o When(Q, y) \o When(R, z)
  BY DEF RightsLayers, When
<1>2. x \in S /\ y \in S /\ z \in S
  <2>1. deny \in [Fds -> SUBSET Classes]
    BY DEF DeniedClasses
  <2>2. SafeIoctls \in Lists /\ Unrestricted \in Lists
    BY ConstantsAssumption DEF Lists
  <2>3. safe_fcntls \in Lists
    BY DEF safe_fcntls, FcntlCmds, Lists
  <2>4. ioctls \in [Fds -> Lists] /\ fcntls \in [Fds -> Lists]
    BY <2>2, <2>3
  <2> HIDE DEF deny, ioctls, fcntls
  <2> QED BY <2>1, <2>4, OneFdStackable
<1>3. deny[fd] = DeniedClasses(r)
  OBVIOUS
<1>4. P \in BOOLEAN /\ Q \in BOOLEAN /\ R \in BOOLEAN
  OBVIOUS
<1> HIDE DEF deny, ioctls, fcntls
<1>5. x.kind = "deny" /\ x.order = <<fd>> /\ x.deny = deny
  BY DEF DenyLayer
<1> HIDE DEF Q, R, x, y, z, s, S
<1>6. s \in Seq(S) /\ (P => Len(s) >= 1 /\ s[1] = x)
  <2> HIDE DEF P
  <2> DEFINE t == When(P, x) \o When(Q, y) \o When(R, z)
  <2>1. t \in Seq(S) /\ Starts(P, t, x)
    BY <1>2, <1>4, ThreeStackable
  <2> QED BY <1>1, <2>1, Zenon DEF Starts
<1>7. Len(s) \in Nat
  BY <1>6
<1>8. ASSUME NEW c \in DeniedClasses(r) PROVE LateLayer(s, fd, c)
  <2>1. P
    BY <1>8
  <2>2. 1 \in 1..Len(s) /\ s[1] = x
    BY <1>6, <1>7, <2>1
  <2> QED BY <1>3, <1>5, <2>2 DEF LateLayer
<1> QED BY <1>6, <1>8 DEF s, S

\* The layer of a late caph_ioctls_limit or caph_fcntls_limit.
LEMMA OneArgStackable ==
    ASSUME NEW o, NEW lim, NEW fd \in Fds, NEW nr \in {SYS_ioctl, SYS_fcntl},
           NEW list \in SUBSET (IoctlCmds \cup FcntlCmds)
    PROVE  OneArg(fd, nr, list) \in Seq(LimitLayers(o, lim))
<1> DEFINE l == [f \in Fds |-> IF f = fd THEN list ELSE Unrestricted]
           x == ArgsLayer(nr, <<fd>>, l)
           S == LimitLayers(o, lim)
<1>1. list \in Lists /\ Unrestricted \in Lists
  BY DEF Lists
<1>2. l \in [Fds -> Lists]
  BY <1>1
<1>3. OneArg(fd, nr, list) = <<x>>
  BY DEF OneArg
<1> HIDE DEF l
<1>4. x \in S
  BY <1>2, OneFdStackable
<1> HIDE DEF x, S
<1>5. <<x>> \in Seq(S)
  BY <1>4
<1> QED BY <1>3, <1>5 DEF S

\* A step that touches neither registry nor stack.
LEMMA StackedIdle ==
    ASSUME Stacked, tool' \in {tool, "exited"},
           UNCHANGED <<order, limit, lookup, filters, late>>
    PROVE  Stacked'
<1>1. tool' = "running" => tool = "running"
  OBVIOUS
<1> QED BY <1>1 DEF Stacked

\* A refused or skipped call.
LEMMA StackedSkip ==
    ASSUME Stacked, Fail \/ UNCHANGED vars PROVE Stacked'
<1>1. /\ tool' \in {tool, "exited"}
      /\ UNCHANGED <<order, limit, lookup, filters, late>>
  BY DEF Fail, vars, shim, kernel, ghosts
<1> QED BY <1>1, StackedIdle

\* A limit call before entering: nothing is loaded yet.
LEMMA StackedRegister ==
    ASSUME IInv, Stacked, tool = "running", ~entered, filters' = filters, late' = late,
           Len(lookup') <= LOOKUP_MAX
    PROVE  Stacked'
<1>1. filters = << >>
  BY DEF IInv, AllOrNothing
<1>2. \A i : i \notin 1..Len(filters)
  BY <1>1
<1>3. \A fd \in Fds : \A c : c \notin late[fd]
  BY <1>2 DEF Stacked, LateLayer
<1> QED BY <1>2, <1>3 DEF Stacked

\* Whatever is loaded was not refused.
LEMMA LoadNotRefused ==
    ASSUME NEW l \in Seq(Layers), Load(l), tool = "running", tool' = "running"
    PROVE  \A i \in 1..Len(l) : ~Refused(l[i])
<1>1. PICK done \in 0..Len(l) :
        /\ \A i \in 1..done : ~Refused(l[i])
        /\ tool' = IF done = Len(l) THEN tool ELSE "exited"
  BY DEF Load
<1>2. done = Len(l)
  BY <1>1
<1> QED BY <1>1, <1>2

\* A limit call after entering.
LEMMA StackedLoad ==
    ASSUME IInv, Stacked, entered, tool = "running",
           NEW l \in Seq(LimitLayers(order, limit)), Load(l),
           UNCHANGED <<order, limit, lookup>>,
           tool' = "running" =>
              \A fd \in Fds : \A c \in late'[fd] : c \in late[fd] \/ LateLayer(l, fd, c)
    PROVE  Stacked'
<1>0. /\ filters \in Seq(Layers) /\ filters # << >> /\ Len(filters) \in Nat
      /\ Len(l) \in Nat
  BY DEF IInv, TypeOK, AllOrNothing
<1>1. \A i \in 1..Len(l) : /\ l[i] \in Layers /\ Stackable(l[i], order, limit)
                           /\ l[i].kind # "ns"
  <2>1. \A i \in 1..Len(l) : l[i] \in LimitLayers(order, limit)
    OBVIOUS
  <2> QED BY <2>1 DEF LimitLayers
<1>2. l \in Seq(Layers)
  <2>1. l = [i \in 1..Len(l) |-> l[i]]
    OBVIOUS
  <2> QED BY <1>0, <1>1, <2>1
<1> SUFFICES ASSUME tool' = "running" PROVE Stacked'
  BY DEF Stacked
<1>3. filters' = filters \o l /\ \A i \in 1..Len(l) : ~Refused(l[i])
  BY <1>0, <1>2, LoadStacks, LoadNotRefused
<1> DEFINE n == Len(filters)
<1>4. /\ Len(filters') = n + Len(l)
      /\ \A i \in 1..n : filters'[i] = filters[i]
      /\ \A i \in (n + 1)..(n + Len(l)) : filters'[i] = l[i - n]
  <2>1. /\ Len(filters \o l) = Len(filters) + Len(l)
        /\ \A i \in 1..Len(filters) : (filters \o l)[i] = filters[i]
        /\ \A i \in (Len(filters) + 1)..(Len(filters) + Len(l)) :
              (filters \o l)[i] = l[i - Len(filters)]
    BY <1>0, <1>2, ConcatProperties
  <2> QED BY <1>3, <2>1
<1>5. n >= 1 /\ n \in Nat
  BY <1>0, EmptySeq
<1>6. \A i \in 1..n : /\ Stackable(filters[i], order, limit) /\ ~Refused(filters[i])
                      /\ i > 1 => filters[i].kind # "ns"
  BY DEF Stacked
<1>7. \A fd \in Fds : \A c \in late[fd] : LateLayer(filters, fd, c)
  BY DEF Stacked
<1>8. Len(lookup') <= LOOKUP_MAX
  BY DEF Stacked
<1> HIDE DEF n
<1>9. ASSUME NEW i \in 1..Len(filters')
      PROVE  /\ Stackable(filters'[i], order', limit') /\ ~Refused(filters'[i])
             /\ i > 1 => filters'[i].kind # "ns"
  <2>1. i \in 1..(n + Len(l))
    BY <1>4
  <2>2. CASE i \in 1..n
    BY <1>4, <1>6, <2>2
  <2>3. CASE i \in (n + 1)..(n + Len(l))
    <3> DEFINE j == i - n
    <3>1. j \in 1..Len(l)
      BY <1>0, <1>5, <2>3
    <3>2. filters'[i] = l[j]
      BY <1>4, <2>3
    <3> HIDE DEF j
    <3>3. /\ Stackable(l[j], order, limit) /\ l[j].kind # "ns" /\ ~Refused(l[j])
      BY <1>1, <1>3, <3>1
    <3> QED BY <3>2, <3>3
  <2> QED BY <1>0, <1>5, <2>1, <2>2, <2>3
<1>10. ASSUME NEW fd \in Fds, NEW c \in late'[fd]
       PROVE  LateLayer(filters', fd, c)
  <2>1. CASE c \in late[fd]
    <3>1. LateLayer(filters, fd, c)
      BY <1>7, <2>1
    <3>2. PICK i \in 1..Len(filters) :
            filters[i].kind = "deny" /\ filters[i].order = <<fd>> /\ c \in filters[i].deny[fd]
      BY <3>1 DEF LateLayer
    <3>3. i \in 1..n /\ i \in 1..Len(filters')
      BY <1>0, <1>4, <1>5, <3>2 DEF n
    <3> QED BY <1>4, <3>2, <3>3 DEF LateLayer
  <2>2. CASE LateLayer(l, fd, c)
    <3>1. PICK j \in 1..Len(l) :
            l[j].kind = "deny" /\ l[j].order = <<fd>> /\ c \in l[j].deny[fd]
      BY <2>2 DEF LateLayer
    <3> DEFINE i == n + j
    <3>2. i \in (n + 1)..(n + Len(l)) /\ i \in 1..Len(filters') /\ i - n = j
      BY <1>0, <1>4, <1>5
    <3> HIDE DEF i
    <3>3. filters'[i] = l[j]
      BY <1>4, <3>2
    <3> QED BY <3>1, <3>2, <3>3 DEF LateLayer
  <2> QED BY <2>1, <2>2
<1> QED BY <1>8, <1>9, <1>10 DEF Stacked

\* caph_rights_limit and caph_limit_stream.
LEMMA StackedRights ==
    ASSUME IInv, Stacked, tool = "running", NEW fd \in Fds, NEW r, RightsLimit(fd, r)
    PROVE  Stacked'
<1>1. CASE RightsRefused(fd, r) /\ Fail
  BY <1>1, StackedSkip
<1>2. CASE /\ ~RightsRefused(fd, r) /\ ~entered
           /\ lookup' = IF "LOOKUP" \in r /\ Len(lookup) < LOOKUP_MAX
                          THEN Append(lookup, fd) ELSE lookup
           /\ AskRights(fd, r)
           /\ UNCHANGED <<disabled, tool, entered, mode, allow, fds, reused, kernel>>
  <2>1. late' = late /\ filters' = filters
    BY <1>2 DEF AskRights, kernel
  <2>2. lookup \in Seq(Fds) /\ Len(lookup) \in Nat /\ LOOKUP_MAX \in Nat
    BY ConstantsAssumption DEF IInv, TypeOK
  <2>3. Len(lookup) <= LOOKUP_MAX
    BY DEF Stacked
  <2>4. Len(lookup') <= LOOKUP_MAX
    <3>1. CASE lookup' = lookup
      BY <2>3, <3>1
    <3>2. CASE lookup' = Append(lookup, fd) /\ Len(lookup) < LOOKUP_MAX
      <4>1. Len(lookup') = Len(lookup) + 1
        BY <2>2, <3>2, AppendProperties
      <4> QED BY <2>2, <3>2, <4>1
    <3> QED BY <1>2, <3>1, <3>2
  <2> QED BY <1>2, <2>1, <2>4, StackedRegister
<1>3. CASE /\ ~RightsRefused(fd, r) /\ entered
           /\ Load(RightsLayers(fd, r))
           /\ IF tool' = "running" THEN AskRights(fd, r) ELSE UNCHANGED ghosts
           /\ UNCHANGED <<disabled, shim, fds, reused, landlock>>
  <2> DEFINE l == RightsLayers(fd, r)
  <2>1. /\ l \in Seq(LimitLayers(order, limit))
        /\ \A c \in DeniedClasses(r) : LateLayer(l, fd, c)
    BY RightsStackable
  <2>2. UNCHANGED <<order, limit, lookup>> /\ Load(l)
    BY <1>3 DEF shim
  <2> HIDE DEF l
  <2>3. ASSUME tool' = "running", NEW g \in Fds, NEW c \in late'[g]
        PROVE  c \in late[g] \/ LateLayer(l, g, c)
    <3>1. late' = [late EXCEPT ![fd] = @ \cup DeniedClasses(r)]
      BY <1>3, <2>3 DEF AskRights
    <3>2. late \in [Fds -> SUBSET Classes]
      BY DEF IInv, TypeOK
    <3>3. CASE g = fd
      <4>1. late'[g] = late[fd] \cup DeniedClasses(r)
        BY <3>1, <3>2, <3>3
      <4> QED BY <2>1, <2>3, <3>3, <4>1
    <3>4. CASE g # fd
      BY <2>3, <3>1, <3>2, <3>4
    <3> QED BY <3>3, <3>4
  <2> QED BY <1>3, <2>1, <2>2, <2>3, StackedLoad
<1> QED BY <1>1, <1>2, <1>3 DEF RightsLimit

\* caph_ioctls_limit and caph_fcntls_limit.
LEMMA StackedArgs ==
    ASSUME IInv, Stacked, tool = "running", NEW fd \in Fds,
           NEW nr \in {SYS_ioctl, SYS_fcntl}, NEW list \in SUBSET (IoctlCmds \cup FcntlCmds),
           ArgLimit(fd, nr, list), late' = late
    PROVE  Stacked'
<1>1. CASE ~entered /\ ~HasSlot(fd) /\ Fail
  BY <1>1, StackedSkip
<1>2. CASE ~entered /\ UNCHANGED <<lookup, kernel>>
  <2>1. filters' = filters /\ Len(lookup') <= LOOKUP_MAX
    BY <1>2 DEF kernel, Stacked
  <2> QED BY <1>2, <2>1, StackedRegister
<1>3. CASE entered /\ Load(OneArg(fd, nr, list)) /\ UNCHANGED <<disabled, shim, fds, reused, landlock>>
  <2> DEFINE l == OneArg(fd, nr, list)
  <2>1. l \in Seq(LimitLayers(order, limit))
    BY OneArgStackable
  <2>2. UNCHANGED <<order, limit, lookup>> /\ Load(l)
    BY <1>3 DEF shim
  <2> HIDE DEF l
  <2> QED BY <1>3, <2>1, <2>2, StackedLoad
<1> QED BY <1>1, <1>2, <1>3 DEF ArgLimit, OneArg

\* enter_mode.
LEMMA StackedEnter ==
    ASSUME IInv, Stacked, NEW m \in Modes, EnterMode(m)
    PROVE  Stacked'
<1>0. tool = "running" /\ filters \in Seq(Layers) /\ lookup \in Seq(Fds)
  BY DEF IInv, EnterMode, TypeOK
<1>1. CASE SkipEnter /\ Noop
  BY <1>1, StackedSkip DEF Noop
<1>2. CASE ~SkipEnter /\ Fail
  BY <1>2, StackedSkip
<1>3. CASE /\ ~SkipEnter
           /\ Load(<<NsLayer(m)>> \o flush_registered_limits)
           /\ UNCHANGED <<disabled, order, limit, lookup, allow, fds, reused, calls, ghosts>>
  <2>1. Len(lookup') <= LOOKUP_MAX /\ Len(lookup) <= LOOKUP_MAX
    BY <1>3 DEF Stacked
  <2> SUFFICES ASSUME tool' = "running" PROVE Stacked'
    BY <2>1 DEF Stacked
  <2>2. ~entered /\ filters = << >> /\ late' = late
    BY <1>0, <1>3 DEF IInv, AllOrNothing, SkipEnter, ghosts
  <2>3. \A i : i \notin 1..Len(filters)
    BY <2>2
  <2>4. \A fd \in Fds : \A c : c \notin late[fd]
    BY <1>0, <2>3 DEF Stacked, LateLayer
  <2> DEFINE rest == flush_registered_limits
             ns == NsLayer(m)
             one == <<ns>>
             l == one \o rest
  <2>5. rest \in Seq(LimitLayers(order, limit)) /\ rest \in Seq(Layers)
    BY FlushStackable, FlushType DEF IInv
  <2>6. ns \in Layers /\ ns.kind = "ns" /\ ns.order = lookup
    BY <1>0, LayerTypes DEF NsLayer
  <2> HIDE DEF rest, ns
  <2>7. one \in Seq(Layers) /\ Len(one) = 1 /\ one[1] = ns
    BY <2>6
  <2> HIDE DEF one
  <2>8. /\ l \in Seq(Layers) /\ Len(l) = Len(one) + Len(rest)
        /\ \A i \in 1..Len(one) : l[i] = one[i]
        /\ \A i \in (Len(one) + 1)..(Len(one) + Len(rest)) : l[i] = rest[i - Len(one)]
    <3>1. one \in Seq(Layers) /\ rest \in Seq(Layers)
      BY <2>5, <2>7
    <3> QED BY <3>1, ConcatProperties
  <2>9. Load(l)
    BY <1>3 DEF one, ns, rest
  <2> HIDE DEF l
  <2>10. filters' = l /\ \A i \in 1..Len(l) : ~Refused(l[i])
    <3>1. filters' = filters \o l
      BY <1>0, <2>8, <2>9, LoadStacks
    <3>2. \A i \in 1..Len(l) : ~Refused(l[i])
      BY <1>0, <2>8, <2>9, LoadNotRefused
    <3> QED BY <2>2, <2>8, <3>1, <3>2, ConcatEmptySeq
  <2>11. Len(rest) \in Nat
    BY <2>5
  <2>12. \A i \in 1..Len(rest) : Stackable(rest[i], order, limit) /\ rest[i].kind # "ns"
    <3>1. \A i \in 1..Len(rest) : rest[i] \in LimitLayers(order, limit)
      BY <2>5
    <3> QED BY <3>1 DEF LimitLayers
  <2>13. Stackable(ns, order, limit)
    BY <2>1, <2>6 DEF Stackable
  <2>14. ASSUME NEW i \in 1..Len(l)
         PROVE  Stackable(l[i], order, limit) /\ (i > 1 => l[i].kind # "ns")
    <3>1. CASE i = 1
      BY <2>7, <2>8, <2>13, <3>1
    <3>2. CASE i > 1
      <4> DEFINE j == i - 1
      <4>1. j \in 1..Len(rest) /\ i \in (Len(one) + 1)..(Len(one) + Len(rest))
            /\ i - Len(one) = j
        BY <2>7, <2>8, <2>11, <3>2
      <4> HIDE DEF j
      <4>2. l[i] = rest[j]
        BY <2>8, <4>1
      <4> QED BY <2>12, <4>1, <4>2
    <3> QED BY <3>1, <3>2
  <2>15. order' = order /\ limit' = limit
    BY <1>3
  <2> QED BY <2>1, <2>2, <2>4, <2>10, <2>14, <2>15 DEF Stacked
<1> QED BY <1>1, <1>2, <1>3 DEF EnterMode

\* Every step keeps the stack as it should be.
LEMMA NextStacked == IInv /\ Stacked /\ [Next]_vars => Stacked'
<1> SUFFICES ASSUME IInv, Stacked, [Next]_vars PROVE Stacked'
  OBVIOUS
<1>1. ASSUME NEW m \in Modes, EnterMode(m) PROVE Stacked'
  BY <1>1, StackedEnter
<1>2. ASSUME NEW fd \in Fds, NEW r \in RightsSets, caph_rights_limit(fd, r)
      PROVE  Stacked'
  BY <1>2, StackedSkip, StackedRights DEF caph_rights_limit, Noop
<1>3. ASSUME NEW fd \in Fds, NEW fl \in StreamFlags, caph_limit_stream(fd, fl)
      PROVE  Stacked'
  BY <1>3, StackedSkip, StackedRights DEF caph_limit_stream, Noop
<1>4. ASSUME NEW fd \in Fds, NEW cmds \in IoctlLists, caph_ioctls_limit(fd, cmds)
      PROVE  Stacked'
  <2>1. CASE disabled
    BY <1>4, <2>1, StackedSkip DEF caph_ioctls_limit, Noop
  <2>2. CASE ~disabled
    <3> DEFINE n == IF Len(cmds) < IOCTL_MAX THEN Len(cmds) ELSE IOCTL_MAX
               list == {cmds[i] : i \in 1..n}
    <3>1. tool = "running" /\ ArgLimit(fd, SYS_ioctl, list) /\ late' = late
      BY <1>4, <2>2 DEF caph_ioctls_limit, ghosts
    <3>2. list \in SUBSET (IoctlCmds \cup FcntlCmds)
      <4>1. cmds \in Seq(IoctlCmds) /\ IOCTL_MAX \in Nat
        BY ConstantsAssumption
      <4>2. \A i \in 1..n : cmds[i] \in IoctlCmds
        BY <4>1
      <4> QED BY <4>2
    <3> HIDE DEF list
    <3> QED BY <3>1, <3>2, StackedArgs
  <2> QED BY <2>1, <2>2
<1>5. ASSUME NEW fd \in Fds, NEW fr \in FcntlRights, caph_fcntls_limit(fd, fr)
      PROVE  Stacked'
  <2>1. CASE disabled
    BY <1>5, <2>1, StackedSkip DEF caph_fcntls_limit, Noop
  <2>2. CASE ~disabled
    <3> DEFINE list == {F_GETFD, F_SETFD} \cup fr
    <3>1. tool = "running" /\ ArgLimit(fd, SYS_fcntl, list) /\ late' = late
      BY <1>5, <2>2 DEF caph_fcntls_limit, ghosts
    <3>2. list \in SUBSET (IoctlCmds \cup FcntlCmds)
      <4>1. fr \in SUBSET {F_GETFL, F_SETFL}
        BY ConstantsAssumption
      <4> QED BY <4>1 DEF FcntlCmds
    <3> HIDE DEF list
    <3> QED BY <3>1, <3>2, StackedArgs
  <2> QED BY <2>1, <2>2
<1>6. ASSUME NEW fd \in Fds, NEW k \in {"file", "dir"}, NEW dir \in Dirs, Open(fd, k, dir)
      PROVE  Stacked'
  <2>1. tool' = tool /\ UNCHANGED <<order, limit, lookup, filters, late>>
    BY <1>6 DEF Open, shim, kernel, ghosts
  <2> QED BY <2>1, StackedIdle
<1>7. ASSUME NEW fd \in Fds, Close(fd) PROVE Stacked'
  <2>1. tool' = tool /\ UNCHANGED <<order, limit, lookup, filters, late>>
    BY <1>7 DEF Close, shim, kernel, ghosts
  <2> QED BY <2>1, StackedIdle
<1>8. ASSUME NEW dir \in Dirs, caph_allow_path(dir) PROVE Stacked'
  <2>1. CASE Noop \/ Fail
    BY <2>1, StackedSkip DEF Noop
  <2>2. CASE UNCHANGED <<tool, order, limit, lookup, kernel, ghosts>>
    BY <2>2, StackedIdle DEF kernel, ghosts
  <2> QED BY <1>8, <2>1, <2>2 DEF caph_allow_path
<1>9. CASE UNCHANGED vars
  BY <1>9, StackedSkip
<1> QED BY <1>1, <1>2, <1>3, <1>4, <1>5, <1>6, <1>7, <1>8, <1>9 DEF Next

\* Nothing is loaded when the tool starts.
LEMMA InitStacked == Init => Stacked
<1> SUFFICES ASSUME Init PROVE Stacked
  OBVIOUS
<1>1. Len(lookup) = 0 /\ LOOKUP_MAX \in Nat /\ Len(filters) = 0
  BY ConstantsAssumption DEF Init
<1>2. Len(lookup) <= LOOKUP_MAX /\ \A i : i \notin 1..Len(filters)
  BY <1>1
<1>3. \A fd \in Fds : late[fd] = {}
  BY DEF Init
<1> QED BY <1>2, <1>3 DEF Stacked

\* The stack in force: at most LOOKUP_MAX directories are registered for lookups, and
\* while the tool runs only the first layer is a namespace program, every allowlist was
\* within the jump budget and names an fd once, a rights layer is the registry's or that
\* of one fd, and each class denied after entering has a layer of its own (Load,
\* enter_mode, flush_registered_limits, caph_rights_limit, install_arg1_limits).
THEOREM StackInvariance == Spec => []Stacked
BY InitStacked, NextStacked, ShimInvariance, PTL DEF Spec

-----------------------------------------------------------------------------
(* What the stack in force answers.                                        *)

\* The programs of every layer in force do what the layer says.
LEMMA StackSound ==
    ASSUME IInv, Stacked, tool = "running"
    PROVE  /\ filters \in Seq(Layers) /\ AllSound(filters)
           /\ \A i \in 1..Len(filters) :
                 /\ filters[i] \in Layers /\ filters[i].kind \in {"ns", "deny", "args"}
                 /\ filters[i].kind = "ns" => Len(filters[i].order) <= LOOKUP_MAX
                 /\ filters[i].kind = "args" =>
                      ArgSound(filters[i]) /\ filters[i].nr \in {SYS_ioctl, SYS_fcntl}
                 /\ i > 1 => filters[i].kind # "ns"
                 /\ filters[i].kind = "deny" =>
                      \/ \E fd \in Fds : filters[i].order = <<fd>>
                      \/ /\ filters[i].order = order
                         /\ \A fd \in Fds : filters[i].deny[fd] = limit[fd].deny
<1>1. filters \in Seq(Layers)
  BY DEF IInv, TypeOK
<1>2. ASSUME NEW i \in 1..Len(filters)
      PROVE  /\ filters[i] \in Layers /\ filters[i].kind \in {"ns", "deny", "args"}
             /\ Sound(filters[i])
             /\ filters[i].kind = "ns" => Len(filters[i].order) <= LOOKUP_MAX
             /\ filters[i].kind = "args" =>
                  ArgSound(filters[i]) /\ filters[i].nr \in {SYS_ioctl, SYS_fcntl}
             /\ i > 1 => filters[i].kind # "ns"
             /\ filters[i].kind = "deny" =>
                  \/ \E fd \in Fds : filters[i].order = <<fd>>
                  \/ /\ filters[i].order = order
                     /\ \A fd \in Fds : filters[i].deny[fd] = limit[fd].deny
  <2> DEFINE l == filters[i]
  <2>1. l \in Layers
    BY <1>1
  <2>2. Stackable(l, order, limit) /\ ~Refused(l) /\ (i > 1 => l.kind # "ns")
    BY DEF Stacked
  <2>3. l.kind \in {"ns", "deny", "args"}
    BY <2>1, LayerFields
  <2> HIDE DEF l
  <2>4. /\ l.kind = "ns" => Len(l.order) <= LOOKUP_MAX
        /\ l.kind = "args" => ArgSound(l) /\ l.nr \in {SYS_ioctl, SYS_fcntl}
        /\ l.kind = "deny" => \/ \E fd \in Fds : l.order = <<fd>>
                              \/ /\ l.order = order
                                 /\ \A fd \in Fds : l.deny[fd] = limit[fd].deny
    BY <2>2 DEF Stackable, ArgSound
  <2>5. Sound(l)
    BY <2>4 DEF Sound
  <2> QED BY <2>1, <2>2, <2>3, <2>4, <2>5 DEF l
<1> QED BY <1>1, <1>2 DEF AllSound

\* No class holds ioctl, fcntl or openat.
LEMMA NotInClasses ==
    ASSUME NEW c \in Classes
    PROVE  /\ SYS_ioctl \notin Range(ClassCalls[c]) /\ SYS_fcntl \notin Range(ClassCalls[c])
           /\ SYS_openat \notin Range(ClassCalls[c])
BY ClassesApart

\* An ioctl or fcntl.
LEMMA ArgCallFields ==
    ASSUME NEW nr \in Int, NEW fd \in Fds, NEW c \in Int
    PROVE  /\ ArgCall(nr, fd, c) \in SysCalls /\ ArgCall(nr, fd, c).native
           /\ ArgCall(nr, fd, c).nr = nr
           /\ ArgCall(nr, fd, c).args[0] = fd /\ ArgCall(nr, fd, c).args[1] = c
<1>1. fd \in Int
  BY ConstantsAssumption
<1>2. NoArgs \in [0..4 -> Int]
  BY DEF NoArgs
<1> QED BY <1>1, <1>2 DEF ArgCall, SysCalls

\* It passes the programs exactly if every layer in force lets it pass.
LEMMA ArgAnswers ==
    ASSUME IInv, Stacked, tool = "running", NEW nr \in {SYS_ioctl, SYS_fcntl},
           NEW fd \in Fds, NEW c \in Int
    PROVE  Allows(FdPrograms, ArgCall(nr, fd, c)) <=> AllPass(filters, nr, fd, c)
<1> DEFINE d == ArgCall(nr, fd, c)
<1>1. nr \in Int
  BY DEF SYS_ioctl, SYS_fcntl
<1>2. d \in SysCalls /\ d.native /\ d.nr = nr /\ d.args[0] = fd /\ d.args[1] = c
  BY <1>1, ArgCallFields
<1>3. \A k \in Classes : d.nr \notin Range(ClassCalls[k])
  BY <1>2, NotInClasses
<1> HIDE DEF d
<1>4. ASSUME NEW i \in 1..Len(filters)
      PROVE  (filters[i].kind # "ns" => LayerAllows(filters[i], d))
               <=> Passes(filters[i], nr, fd, c)
  <2> DEFINE l == filters[i]
  <2>1. /\ l \in Layers /\ l.kind \in {"ns", "deny", "args"}
        /\ l.kind = "args" => ArgSound(l)
    BY StackSound
  <2> SUFFICES (l.kind # "ns" => LayerAllows(l, d)) <=> Passes(l, nr, fd, c)
    OBVIOUS
  <2> HIDE DEF l
  <2>2. CASE l.kind = "ns"
    BY <2>2 DEF Passes
  <2>3. CASE l.kind = "deny"
    <3>1. LayerAllows(l, d)
      BY <1>2, <1>3, <2>1, <2>3, DenyLets
    <3> QED BY <2>3, <3>1 DEF Passes
  <2>4. CASE l.kind = "args"
    <3>1. LayerAllows(l, d) <=>
            (d.nr = l.nr => \A g \in Range(l.order) :
                               d.args[0] = g => Allowed(l.lists[g], d.args[1]))
      BY <1>2, <2>1, <2>4, ArgPasses
    <3>2. LayerAllows(l, d) <=>
            (nr = l.nr => (fd \in Range(l.order) => Allowed(l.lists[fd], c)))
      BY <1>2, <3>1
    <3>3. Passes(l, nr, fd, c) <=>
            (nr = l.nr => (fd \in Range(l.order) => Allowed(l.lists[fd], c)))
      BY <2>4 DEF Passes
    <3> QED BY <2>4, <3>2, <3>3
  <2> QED BY <2>1, <2>2, <2>3, <2>4
<1>5. Allows(FdPrograms, d) <=>
        \A i \in 1..Len(filters) : filters[i].kind # "ns" => LayerAllows(filters[i], d)
  BY StackSound, StackAnswers
<1> QED BY <1>4, <1>5 DEF AllPass, d

\* The state of the stack and of the requests gives the property.
LEMMA ArgsFollow ==
    ASSUME IInv, Stacked, LayersFaithful PROVE ArgLimitsEnforced
<1> SUFFICES ASSUME Sandboxed, NEW fd \in Fds
             PROVE  /\ \A c \in IoctlCmds :
                         LET passes  == Allows(FdPrograms, ArgCall(SYS_ioctl, fd, c))
                             granted == asked[fd].ioctls = Unrestricted
                                        \/ c \in asked[fd].ioctls
                         IN  (passes => granted) /\ (granted /\ fd \notin cut => passes)
                    /\ \A c \in FcntlCmds :
                         Allows(FdPrograms, ArgCall(SYS_fcntl, fd, c)) <=>
                            (asked[fd].fcntls = Unrestricted \/ c \in asked[fd].fcntls)
  BY DEF ArgLimitsEnforced
<1>1. tool = "running" /\ entered
  BY DEF Sandboxed
<1>2. /\ \A c \in IoctlCmds :
           /\ AllPass(filters, SYS_ioctl, fd, c) => Allowed(asked[fd].ioctls, c)
           /\ fd \notin cut /\ Allowed(asked[fd].ioctls, c)
                => AllPass(filters, SYS_ioctl, fd, c)
      /\ \A c \in FcntlCmds :
           AllPass(filters, SYS_fcntl, fd, c) <=> Allowed(asked[fd].fcntls, c)
  BY <1>1 DEF LayersFaithful
<1>3. IoctlCmds \subseteq Int /\ FcntlCmds \subseteq Int
  BY ConstantsAssumption DEF FcntlCmds, F_DUPFD, F_GETFD, F_SETFD, F_GETFL, F_SETFL
<1>4. ASSUME NEW c \in IoctlCmds
      PROVE  LET passes  == Allows(FdPrograms, ArgCall(SYS_ioctl, fd, c))
                 granted == asked[fd].ioctls = Unrestricted \/ c \in asked[fd].ioctls
             IN  (passes => granted) /\ (granted /\ fd \notin cut => passes)
  <2>1. Allows(FdPrograms, ArgCall(SYS_ioctl, fd, c)) <=> AllPass(filters, SYS_ioctl, fd, c)
    BY <1>1, <1>3, ArgAnswers
  <2> QED BY <1>2, <2>1 DEF Allowed
<1>5. ASSUME NEW c \in FcntlCmds
      PROVE  Allows(FdPrograms, ArgCall(SYS_fcntl, fd, c)) <=>
                (asked[fd].fcntls = Unrestricted \/ c \in asked[fd].fcntls)
  <2>1. Allows(FdPrograms, ArgCall(SYS_fcntl, fd, c)) <=> AllPass(filters, SYS_fcntl, fd, c)
    BY <1>1, <1>3, ArgAnswers
  <2> QED BY <1>2, <2>1 DEF Allowed
<1> QED BY <1>4, <1>5

\* One layer that stops a call is enough.
LEMMA LayerStops ==
    ASSUME IInv, Stacked, tool = "running", NEW i \in 1..Len(filters),
           filters[i].kind # "ns", NEW d, ~LayerAllows(filters[i], d)
    PROVE  ~Allows(FdPrograms, d)
<1>1. Allows(FdPrograms, d) <=>
        \A j \in 1..Len(filters) : filters[j].kind # "ns" => LayerAllows(filters[j], d)
  BY StackSound, StackAnswers
<1> QED BY <1>1

\* A layer of one fd stops every call of the classes it denies.
LEMMA OneFdStops ==
    ASSUME IInv, Stacked, tool = "running", NEW fd \in Fds, NEW c \in Classes,
           NEW i \in 1..Len(filters), filters[i].kind = "deny",
           filters[i].order = <<fd>>, c \in filters[i].deny[fd],
           NEW nr \in Range(ClassCalls[c])
    PROVE  ~Allows(FdPrograms, FdCall(nr, fd))
<1> DEFINE l == filters[i]
           q == 1
<1>1. l \in Layers /\ l.kind = "deny" /\ l.kind # "ns"
  BY StackSound
<1>2. q \in 1..Len(l.order) /\ l.order[q] = fd /\ \A g : g \notin 1..(q - 1)
  OBVIOUS
<1>3. c \in l.deny[fd]
  OBVIOUS
<1> HIDE DEF l, q
<1>4. ~LayerAllows(l, FdCall(nr, l.order[q]))
  BY <1>1, <1>2, <1>3, DenyStops
<1>5. ~LayerAllows(l, FdCall(nr, fd))
  BY <1>2, <1>4
<1> QED BY <1>1, <1>5, LayerStops DEF l

\* The layers of the requests, and what comes first in the registry's layer.
LEMMA RightsFollow ==
    ASSUME IInv, Stacked, LayersFaithful PROVE RightsEnforced
<1> SUFFICES ASSUME Sandboxed, NEW fd \in Fds, NEW c \in asked[fd].deny
             PROVE  \/ \A nr \in Range(ClassCalls[c]) : ~Allows(FdPrograms, FdCall(nr, fd))
                    \/ /\ c \notin late[fd]
                       /\ \E g \in Range(order) \ {fd} :
                            /\ c \in limit[g].deny
                            /\ \E i, j \in DOMAIN order :
                                  order[i] = g /\ order[j] = fd /\ i < j
  BY DEF RightsEnforced
<1>1. tool = "running" /\ entered
  BY DEF Sandboxed
<1>2. c \in Classes
  BY DEF IInv, TypeOK, Limits
<1>3. CASE c \in late[fd]
  <2>1. LateLayer(filters, fd, c)
    BY <1>1, <1>3 DEF Stacked
  <2>2. PICK i \in 1..Len(filters) :
          filters[i].kind = "deny" /\ filters[i].order = <<fd>> /\ c \in filters[i].deny[fd]
    BY <2>1 DEF LateLayer
  <2> QED BY <1>1, <1>2, <2>2, OneFdStops
<1>4. CASE c \notin late[fd]
  <2>1. AnyStops(filters, fd, c)
    BY <1>1, <1>2 DEF LayersFaithful
  <2>2. PICK i \in 1..Len(filters) : Stops(filters[i], fd, c)
    BY <2>1 DEF AnyStops
  <2>3. /\ filters[i].kind = "deny" /\ fd \in Range(filters[i].order)
        /\ c \in filters[i].deny[fd]
    BY <2>2 DEF Stops
  <2>4. \/ \E g \in Fds : filters[i].order = <<g>>
        \/ filters[i].order = order /\ \A g \in Fds : filters[i].deny[g] = limit[g].deny
    BY <1>1, <2>3, StackSound
  <2>5. CASE \E g \in Fds : filters[i].order = <<g>>
    <3>1. filters[i].order = <<fd>>
      BY <2>3, <2>5 DEF Range
    <3> QED BY <1>1, <1>2, <2>3, <3>1, OneFdStops
  <2>6. CASE filters[i].order = order /\ \A g \in Fds : filters[i].deny[g] = limit[g].deny
    <3>1. order \in Seq(Fds) /\ DOMAIN order = 1..Len(order)
      BY LenProperties DEF IInv, TypeOK
    <3>2. PICK q \in 1..Len(order) : order[q] = fd
      BY <2>3, <2>6, <3>1 DEF Range
    <3>3. Len(order) \in Nat /\ q \in Nat
      BY <3>1
    <3>4. CASE \E g \in 1..(q - 1) : c \in limit[order[g]].deny
      <4>1. PICK g \in 1..(q - 1) : c \in limit[order[g]].deny
        BY <3>4
      <4>2. g \in 1..Len(order) /\ g < q /\ g # q
        BY <3>2, <3>3, <4>1
      <4>3. order[g] # fd
        BY <3>2, <4>2 DEF IInv, RegistryFaithful
      <4>4. order[g] \in Range(order)
        BY <3>1, <4>2 DEF Range
      <4>5. \E a, b \in DOMAIN order : order[a] = order[g] /\ order[b] = fd /\ a < b
        BY <3>1, <3>2, <4>2
      <4> QED BY <1>4, <4>1, <4>3, <4>4, <4>5
    <3>5. CASE \A g \in 1..(q - 1) : c \notin limit[order[g]].deny
      <4> DEFINE l == filters[i]
      <4>1. l \in Layers /\ l.kind = "deny" /\ l.kind # "ns"
        BY <1>1, <2>3, StackSound
      <4>2. l.order = order /\ c \in l.deny[fd] /\ \A g \in Fds : l.deny[g] = limit[g].deny
        BY <2>3, <2>6
      <4>3. \A g \in 1..(q - 1) : g \in 1..Len(order)
        BY <3>2, <3>3
      <4>4. \A g \in 1..(q - 1) : order[g] \in Fds
        BY <3>1, <4>3
      <4> HIDE DEF l
      <4>5. \A g \in 1..(q - 1) : c \notin l.deny[l.order[g]]
        BY <3>5, <4>2, <4>4
      <4>6. q \in 1..Len(l.order) /\ l.order[q] = fd /\ c \in l.deny[l.order[q]]
        BY <3>2, <4>2
      <4>7. ASSUME NEW nr \in Range(ClassCalls[c])
            PROVE  ~Allows(FdPrograms, FdCall(nr, fd))
        <5>1. ~LayerAllows(l, FdCall(nr, l.order[q]))
          BY <1>2, <4>1, <4>5, <4>6, DenyStops
        <5>2. ~LayerAllows(l, FdCall(nr, fd))
          BY <4>6, <5>1
        <5> QED BY <1>1, <4>1, <5>2, LayerStops DEF l
      <4> QED BY <4>7
    <3> QED BY <3>4, <3>5
  <2> QED BY <2>4, <2>5, <2>6
<1> QED BY <1>3, <1>4

\* An open.
LEMMA OpenFields ==
    ASSUME NEW d \in Fds \cup {AT_FDCWD}, NEW access
    PROVE  /\ openat(d, access) \in SysCalls /\ openat(d, access).native
           /\ openat(d, access).nr = SYS_openat
           /\ openat(d, access).args[0] = d
           /\ openat(d, access).args[2] = OpenFlags(access)
<1>1. d \in Int
  BY ConstantsAssumption DEF AT_FDCWD
<1>2. NoArgs \in [0..4 -> Int]
  BY DEF NoArgs
<1>3. OpenFlags(access) \in Int /\ SYS_openat \in Int
  BY DEF OpenFlags, O_RDONLY, O_WRONLY, O_CREAT, SYS_openat
<1> QED BY <1>1, <1>2, <1>3 DEF openat, SysCalls

\* Its flags under the two masks.
LEMMA OpenFlagBits ==
    ASSUME NEW access PROVE ReadsOnly(OpenFlags(access)) <=> access = "read"
<1>1. O_ACCMODE = 3 /\ WriteFlags \in Int
  BY DEF O_ACCMODE, WriteFlags, O_CREAT, O_TRUNC, O_APPEND, O_TMPFILE, O_DIRECTORY
<1> DEFINE f == OpenFlags(access)
           m == O_ACCMODE
<1>2. CASE access = "read"
  <2>1. f = 0 /\ f \in Int /\ m \in Int
    BY <1>1, <1>2 DEF OpenFlags, O_RDONLY
  <2> HIDE DEF f, m
  <2>2. BitAnd(f, m) = 0 /\ BitAnd(f, WriteFlags) = 0
    BY <1>1, <2>1, BitAndZero
  <2> QED BY <1>2, <2>2 DEF ReadsOnly, f, m
<1>3. CASE access # "read"
  <2>1. f = 65 /\ f \in Int /\ m \in Int /\ m = 3
    BY <1>1, <1>3 DEF OpenFlags, O_WRONLY, O_CREAT
  <2> HIDE DEF f, m
  <2>2. BitAnd(f, m) = 0 => \A w \in {1, 64, 512, 1024, 65536, 4194304} : Both(f, m, w) = 0
    BY <2>1, BitAndZero
  <2>3. BitAnd(f, m) = 0 => Both(f, m, 1) = 0
    BY <2>2
  <2>4. (65 \div 1) % 2 = 1 /\ (3 \div 1) % 2 = 1
    OBVIOUS
  <2>5. Both(f, m, 1) = 1
    BY <2>1, <2>4 DEF Both
  <2> QED BY <1>3, <2>3, <2>5 DEF ReadsOnly, f, m
<1> QED BY <1>2, <1>3

\* No list of refused calls names openat.
LEMMA OpenatNotListed ==
    ASSUME NEW m PROVE ~Listed(m, SYS_openat)
<1>1. \A i \in 1..32 : AlwaysDenied[i] # 257
  BY DEF AlwaysDenied
<1>2. DOMAIN AlwaysDenied = 1..32
  BY DEF AlwaysDenied
<1>3. \A i \in 1..8 : PathRead[i] # 257
  BY DEF PathRead
<1>4. DOMAIN PathRead = 1..8
  BY DEF PathRead
<1>5. SYS_openat \notin Range(Mutating)
  <2>1. \A i \in 1..33 : PathMutation[i] # 257
    BY DEF PathMutation
  <2>2. DOMAIN PathMutation = 1..33
    BY DEF PathMutation
  <2>3. SYS_openat \notin Range(PathMutation)
    BY <2>1, <2>2 DEF Range, SYS_openat
  <2> QED BY <2>3, MutatingShape DEF SYS_openat, SYS_creat, SYS_openat2
<1> QED BY <1>1, <1>2, <1>3, <1>4, <1>5 DEF Listed, Range, SYS_openat

\* Only the namespace program of the entered mode looks at opens.
LEMMA OpenAnswers ==
    ASSUME IInv, Stacked, Sandboxed, NEW d \in Fds \cup {AT_FDCWD}, NEW access
    PROVE  Allows(Programs, openat(d, access)) <=>
              /\ mode = MODE_FULL => d \in Range(lookup)
              /\ mode = MODE_CASPER => access = "read"
<1> DEFINE call == openat(d, access)
<1>1. /\ call \in SysCalls /\ call.native /\ call.nr = SYS_openat
      /\ call.args[0] = d /\ call.args[2] = OpenFlags(access)
  BY OpenFields
<1>2. tool = "running" /\ entered /\ ~disabled
  BY DEF Sandboxed
<1>3. filters # << >> /\ filters[1] = NsLayer(mode) /\ filters \in Seq(Layers)
  BY <1>2 DEF IInv, AllOrNothing, TypeOK
<1>4. Len(filters) \in Nat /\ Len(filters) >= 1
  BY <1>3, EmptySeq
<1>5. \A k \in Classes : call.nr \notin Range(ClassCalls[k])
  BY <1>1, NotInClasses
<1> HIDE DEF call
<1>6. ASSUME NEW i \in 1..Len(filters), i > 1 PROVE LayerAllows(filters[i], call)
  <2> DEFINE l == filters[i]
  <2>1. /\ l \in Layers /\ l.kind \in {"ns", "deny", "args"} /\ l.kind # "ns"
        /\ l.kind = "args" => ArgSound(l) /\ l.nr \in {SYS_ioctl, SYS_fcntl}
    BY <1>2, <1>6, StackSound
  <2> SUFFICES LayerAllows(l, call)
    OBVIOUS
  <2> HIDE DEF l
  <2>2. CASE l.kind = "deny"
    BY <1>1, <1>5, <2>1, <2>2, DenyLets
  <2>3. CASE l.kind = "args"
    <3>1. LayerAllows(l, call) <=>
            (call.nr = l.nr => \A g \in Range(l.order) :
                                 call.args[0] = g => Allowed(l.lists[g], call.args[1]))
      BY <1>1, <2>1, <2>3, ArgPasses
    <3>2. call.nr # l.nr
      BY <1>1, <2>1, <2>3 DEF SYS_ioctl, SYS_fcntl, SYS_openat
    <3> QED BY <3>1, <3>2
  <2> QED BY <2>1, <2>2, <2>3
<1>7. LayerAllows(filters[1], call) <=> ~OpenRefused(mode, lookup, call)
  <2> DEFINE l == filters[1]
  <2>1. l \in Layers /\ l.kind = "ns" /\ l.order = lookup /\ l.mode = mode
    BY <1>3, <1>4 DEF NsLayer
  <2>2. Len(l.order) <= LOOKUP_MAX
    BY <2>1 DEF Stacked
  <2> SUFFICES LayerAllows(l, call) <=> ~OpenRefused(mode, lookup, call)
    OBVIOUS
  <2> HIDE DEF l
  <2>3. LayerAllows(l, call) <=> ~NamespaceRefuses(l.mode, l.order, call)
    BY <1>1, <2>1, <2>2, NsPasses
  <2>4. ~Listed(mode, call.nr)
    BY <1>1, OpenatNotListed
  <2> QED BY <2>1, <2>3, <2>4 DEF NamespaceRefuses
<1>8. OpenRefused(mode, lookup, call) <=>
        \/ mode = MODE_CASPER /\ access # "read"
        \/ mode = MODE_FULL /\ d \notin Range(lookup)
  <2>1. ReadsOnly(call.args[2]) <=> access = "read"
    BY <1>1, OpenFlagBits
  <2>2. SYS_openat # SYS_open
    BY DEF SYS_openat, SYS_open
  <2> QED BY <1>1, <2>1, <2>2 DEF OpenRefused
<1>9. Allows(Programs, call) <=> \A i \in 1..Len(filters) : LayerAllows(filters[i], call)
  BY <1>2, StackSound, StackAnswers
<1>10. Allows(Programs, call) <=> LayerAllows(filters[1], call)
  <2>1. 1 \in 1..Len(filters) /\ \A i \in 1..Len(filters) : i = 1 \/ i > 1
    BY <1>4
  <2> QED BY <1>6, <1>9, <2>1
<1> QED BY <1>7, <1>8, <1>10 DEF call

\* The domain and the stack give the property.
LEMMA FilesFollow ==
    ASSUME IInv, Stacked, DomainFaithful PROVE FsConfined
<1> SUFFICES ASSUME Sandboxed, NEW d \in Fds \cup {AT_FDCWD}, NEW dir \in Dirs,
                    NEW access \in {"read", "mutate"}
             PROVE  LET may == MayOpen(Programs, d, dir, access) IN
                    /\ mode = MODE_FULL =>
                         /\ may => d \in LookupNumbers /\ dir \in PlacesOf(Kept \cup reused)
                         /\ /\ LookupNumbers \subseteq Range(lookup)
                            /\ d \in LookupNumbers /\ dir \in PlacesOf(Kept)
                            => may
                    /\ mode = MODE_PATHS  => (may <=> dir \in Range(allow))
                    /\ mode = MODE_CASPER => (may <=> access = "read")
  BY DEF FsConfined
<1>1. tool = "running" /\ entered
  BY DEF Sandboxed
<1> DEFINE may == MayOpen(Programs, d, dir, access)
<1>2. may <=> /\ mode = MODE_FULL => d \in Range(lookup)
              /\ mode = MODE_CASPER => access = "read"
              /\ access \in landlock.handled => dir \in landlock.beneath
  BY OpenAnswers DEF MayOpen, LandlockAllows
<1> HIDE DEF may
<1>3. mode \in Modes
  BY DEF IInv, TypeOK
<1>4. CASE mode = MODE_FULL
  <2>1. mode # MODE_PATHS /\ mode # MODE_CASPER
    BY <1>4 DEF MODE_FULL, MODE_PATHS, MODE_CASPER
  <2>2. /\ landlock.handled = {"mutate", "read"}
        /\ landlock.beneath \subseteq PlacesOf(Kept \cup reused)
        /\ Range(lookup) \subseteq LookupNumbers
        /\ \A l \in Kept : l.fd \in Range(lookup) => l.at \in landlock.beneath
    BY <1>1, <1>4 DEF DomainFaithful
  <2>3. may <=> d \in Range(lookup) /\ dir \in landlock.beneath
    BY <1>2, <1>4, <2>1, <2>2
  <2>4. may => d \in LookupNumbers /\ dir \in PlacesOf(Kept \cup reused)
    BY <2>2, <2>3
  <2>5. /\ LookupNumbers \subseteq Range(lookup)
        /\ d \in LookupNumbers /\ dir \in PlacesOf(Kept)
        => may
    <3>1. \A l \in Kept : l.fd \in LookupNumbers
      BY DEF Kept, LookupNumbers
    <3>2. dir \in PlacesOf(Kept) => \E l \in Kept : l.at = dir
      BY DEF PlacesOf
    <3> QED BY <2>2, <2>3, <3>1, <3>2
  <2> QED BY <1>4, <2>1, <2>4, <2>5 DEF may
<1>5. CASE mode = MODE_PATHS
  <2>1. mode # MODE_FULL /\ mode # MODE_CASPER
    BY <1>5 DEF MODE_FULL, MODE_PATHS, MODE_CASPER
  <2>2. landlock.handled = {"mutate", "read"} /\ landlock.beneath = Range(allow)
    BY <1>1, <1>5 DEF DomainFaithful
  <2>3. may <=> dir \in Range(allow)
    BY <1>2, <2>1, <2>2
  <2> QED BY <1>5, <2>1, <2>3 DEF may
<1>6. CASE mode = MODE_CASPER
  <2>1. mode # MODE_FULL /\ mode # MODE_PATHS
    BY <1>6 DEF MODE_FULL, MODE_PATHS, MODE_CASPER
  <2>2. landlock.handled = {"mutate"}
    BY <1>1, <1>6 DEF DomainFaithful
  <2>3. may <=> access = "read"
    BY <1>2, <1>6, <2>1, <2>2
  <2> QED BY <1>6, <2>1, <2>3 DEF may
<1> QED BY <1>3, <1>4, <1>5, <1>6 DEF Modes

\* Inside the sandbox the seccomp programs in force let an ioctl or fcntl on an fd pass
\* exactly if every limit call on that fd allows its command, for any fds, lists and
\* number of calls; a list cut at IOCTL_MAX only denies more (install_arg1_limits,
\* flush_registered_limits, caph_ioctls_limit, caph_fcntls_limit).
THEOREM ArgLimitsAreEnforced == Spec => []ArgLimitsEnforced
BY ArgsFollow, ShimInvariance, StackInvariance, LayersAreFaithful, PTL

\* Inside the sandbox the programs in force stop every call of a class denied to an fd,
\* except where the class was denied before entering and an fd registered earlier is
\* denied it too (install_entry_chunk, emit_fd_deny, caph_rights_limit).
THEOREM RightsAreEnforced == Spec => []RightsEnforced
BY RightsFollow, ShimInvariance, StackInvariance, LayersAreFaithful, PTL

\* Inside the sandbox the programs in force and the Landlock domain together let an open
\* pass exactly where the entered mode promises; a number dropped from a full
\* lookup_fds[] only denies more, and a directory opened on a registered number before
\* entering is the only way to reach another one (install_namespace_filter,
\* landlock_lockdown, enter_mode).
THEOREM FilesAreConfined == Spec => []FsConfined
BY FilesFollow, ShimInvariance, StackInvariance, DomainIsFaithful, PTL
=============================================================================

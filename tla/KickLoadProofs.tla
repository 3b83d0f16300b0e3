--------------------------- MODULE KickLoadProofs ---------------------------
(***************************************************************************)
(* Proofs about KickLoad, for every board, zip, text of the Kicklayout and *)
(* word size.  KickInv is the inductive invariant: it says where the       *)
(* claims are (the text behind the zip, the loader at exec_addr, the rest  *)
(* between KICKLIST_ADDR and avail), that what is in use lies in them, and *)
(* that the list header and its nodes are what WantedLine reads.  OrderInv *)
(* rests on it: the nodes form a chain below avail and follow the lines of *)
(* the configuration read so far.                                          *)
(***************************************************************************)
EXTENDS KickLoad, MemoryProofs, TLAPS

(* ROUND_UP(n, 4) lies less than 4 above n: where a module struct starts. *)
LEMMA RoundUp4 ==
  ASSUME NEW n \in Nat, n + 4 < Word
  PROVE  /\ ROUND_UP(n, 4) \in Nat
         /\ n <= ROUND_UP(n, 4) /\ ROUND_UP(n, 4) < n + 4
<1>1. Add(n, 3) = n + 3
  BY AddSmall, WordAssumption
<1> QED
  BY <1>1 DEF ROUND_UP, ROUND_DOWN

(* ROUND_UP(n, 32) lies less than 32 above n: the sizes passed to claim(). *)
LEMMA RoundUp32 ==
  ASSUME NEW n \in Nat, n + 32 < Word
  PROVE  /\ ROUND_UP(n, 32) \in Nat
         /\ n <= ROUND_UP(n, 32) /\ ROUND_UP(n, 32) < n + 32
<1>1. Add(n, 31) = n + 31
  BY AddSmall, WordAssumption
<1> QED
  BY <1>1 DEF ROUND_UP, ROUND_DOWN

(* The roundings of load_module_from_zip() give numbers even when they wrap. *)
LEMMA RoundNat ==
  ASSUME NEW n \in Nat
  PROVE  ROUND_UP(n, 4) \in Nat /\ ROUND_UP(n, 32) \in Nat
<1>1. Add(n, 3) \in Nat /\ Add(n, 31) \in Nat
  BY AddType
<1>2. ROUND_UP(n, 4) = Add(n, 3) - (Add(n, 3) % 4)
  BY DEF ROUND_UP, ROUND_DOWN, Add
<1>3. ROUND_UP(n, 32) = Add(n, 31) - (Add(n, 31) % 32)
  BY DEF ROUND_UP, ROUND_DOWN, Add
<1> QED
  BY <1>1, <1>2, <1>3
-----------------------------------------------------------------------------
(* claim() answers the address asked for, NULL or Open Firmware's error. *)
LEMMA ClaimResult ==
  ASSUME NEW addr, NEW size, NEW cs
  PROVE  claim(addr, size, cs) \in {addr, NULL, PROM_ERROR}
BY DEF claim, prom_claim, no_claim

(* What claim() answers is an address. *)
LEMMA ClaimType ==
  ASSUME NEW addr \in Int, NEW size, NEW cs
  PROVE  claim(addr, size, cs) \in Int
BY WordAssumption, ClaimResult DEF NULL, PROM_ERROR

(* Recording a granted claim keeps the claims regions. *)
LEMMA GrantedType ==
  ASSUME NEW cs, NEW p \in Int, NEW size \in Nat,
         \A r \in cs : r.lo \in Int /\ r.len \in Nat
  PROVE  \A r \in Granted(cs, p, size) : r.lo \in Int /\ r.len \in Nat
BY DEF Granted, Region

(* A recorded use of memory has its type. *)
LEMMA UseType ==
  ASSUME NEW kind \in {"zip", "text", "list", "image", "node"},
         NEW n \in Nat, NEW lo \in Int, NEW len \in Nat
  PROVE  IsUse(Use(kind, n, lo, len))
BY DEF IsUse, Use

(* A module struct with its name has a positive length. *)
LEMMA NodeLenType ==
  ASSUME NEW p \in Path
  PROVE  node_len(p) \in Nat /\ node_len(p) > 0
BY KickLoadAssumption DEF node_len, sizeof_module

(* An EXEC or MODULE line names a path (the argument of KEYWORD lines). *)
LEMMA LinePath ==
  ASSUME NEW l \in Line, l.kw \in {"EXEC", "MODULE"}
  PROVE  l.path \in Path
BY DEF Line

(* alist_add_tail() makes a list of a list and a node. *)
LEMMA AddTailType ==
  ASSUME NEW l, IsList(l), NEW n \in Int, NEW m \in NodeType
  PROVE  IsList(alist_add_tail(l, n, m))
<1> DEFINE k == Linked(l, n, m, l.l_tailpred, TAIL(l))
<1>1. DOMAIN k = DOMAIN l.node \cup {n}
  BY DEF Linked
<1>2. TAIL(l) \in Int /\ l.l_tailpred \in Int
  BY DEF IsList, TAIL
<1>3. ASSUME NEW a \in DOMAIN k PROVE a \in Int /\ k[a] \in NodeType
  <2>1. CASE a = n
    BY <2>1, <1>2 DEF Linked, NodeType
  <2>2. CASE a # n
    <3>1. a \in DOMAIN l.node /\ l.node[a] \in NodeType /\ a \in Int
      BY <1>1, <1>3, <2>2 DEF IsList
    <3>2. k[a] = IF a = l.l_tailpred THEN [l.node[a] EXCEPT !.n_succ = n]
                 ELSE l.node[a]
      BY <1>1, <1>3, <2>2 DEF Linked
    <3> QED
      BY <3>1, <3>2 DEF NodeType
  <2> QED
    BY <2>1, <2>2
<1> QED
  BY <1>2, <1>3 DEF IsList, alist_add_tail

(* add_module() fills in a module struct. *)
LEMMA ModuleType ==
  ASSUME IsZip(zip), NEW p \in Path \cap DOMAIN zip.files,
         NEW id \in {1, 2}, NEW address \in Int
  PROVE  Module(id, p, address) \in NodeType
BY DEF IsZip, Module, NodeType, NULL

(* boot_aos_zipkick() starts with every variable of its type. *)
LEMMA TypeInit == Init => TypeOK
<1> SUFFICES ASSUME Init PROVE TypeOK
  OBVIOUS
<1>1. brd \in BrdType /\ IsZip(zip)
  BY KickLoadAssumption DEF Init
<1>2. IsList(kicklist)
  BY DEF Init, NoList, IsList
<1>3. \A u \in live : IsUse(u)
  BY <1>1 DEF Init, IsUse, Use, IsZip
<1>4. /\ pc \in {"open", "parse", "ret"} /\ ret \in Int
      /\ c \in Nat /\ avail \in Int /\ text \in Seq(Line)
      /\ \A r \in claims : r.lo \in Int /\ r.len \in Nat
  BY DEF Init, NULL
<1>5. refused \in BOOLEAN
  BY DEF Init
<1> QED
  BY <1>1, <1>2, <1>3, <1>4, <1>5 DEF TypeOK

(* Every step of boot_aos_zipkick() keeps the types. *)
LEMMA TypeStep == TypeOK /\ [Next]_vars => TypeOK'
<1> SUFFICES ASSUME TypeOK, [Next]_vars PROVE TypeOK'
  OBVIOUS
<1> USE DEF TypeOK
<1>n. NewLine \in Nat
  BY DEF NewLine
<1>1. CASE NoKicklayout
  BY <1>1 DEF NoKicklayout, Fail, NULL
<1>2. CASE LoadKicklayout
  <2> DEFINE p == claim(Add(zip.addr, zip.len), Add(kicklayout_len, 2), claims)
  <2>1. zip.addr \in Int /\ zip.len \in Int /\ kicklayout_len \in Nat
    BY <1>2 DEF LoadKicklayout, kicklayout_len, IsZip
  <2>a. Add(zip.addr, zip.len) \in Nat /\ Add(kicklayout_len, 2) \in Nat
    BY <2>1, WordAssumption DEF Add
  <2>2. p \in Int /\ Add(kicklayout_len, 2) \in Nat
    <3>1. Add(zip.addr, zip.len) \in Int
      BY <2>a
    <3> QED
      BY <2>a, <3>1, ClaimType
  <2>3. /\ claims' = Granted(claims, p, Add(kicklayout_len, 2))
        /\ refused' = (refused \/ p = PROM_ERROR)
        /\ live' \in {live, live \cup {Use("text", 0, p, kicklayout_len + 2)}}
        /\ UNCHANGED <<brd, zip, c, kicklist, text>>
    BY <1>2 DEF LoadKicklayout
  <2>4. \A r \in claims' : r.lo \in Int /\ r.len \in Nat
    BY <2>2, <2>3, GrantedType
  <2>5. \A u \in live' : IsUse(u)
    <3>1. kicklayout_len + 2 \in Nat
      BY <2>1
    <3>2. IsUse(Use("text", 0, p, kicklayout_len + 2))
      BY <2>2, <3>1, UseType
    <3> QED
      BY <2>3, <3>2
  <2>6. /\ pc' \in {"open", "parse", "ret"} /\ ret' \in Int
        /\ avail' \in Int
    BY <1>2, KickLoadAssumption DEF LoadKicklayout, Fail, NULL
  <2> QED
    BY <2>3, <2>4, <2>5, <2>6
<1>3. ASSUME NEW l \in Line, SkipLine(l) PROVE TypeOK'
  BY <1>3 DEF SkipLine, ReadLine
<1>4. ASSUME NEW l \in Line, EarlierLabel(l) PROVE TypeOK'
  BY <1>4 DEF EarlierLabel, ReadLine
<1>5. ASSUME NEW l \in Line, ConfigLabel(l) PROVE TypeOK'
  <2> DEFINE p == claim(avail, sizeof_list, claims)
  <2>1. p \in Int /\ sizeof_list \in Nat
    BY ClaimType DEF sizeof_list
  <2>2. \A r \in claims' : r.lo \in Int /\ r.len \in Nat
    BY <1>5, <2>1, GrantedType DEF ConfigLabel
  <2>3. \A u \in live' : IsUse(u)
    <3>1. IsUse(Use("list", NewLine, p, sizeof_list))
      BY <2>1, <1>n, UseType
    <3> QED
      BY <1>5, <3>1 DEF ConfigLabel
  <2>4. IsList(kicklist')
    BY <1>5, <2>1 DEF ConfigLabel, alist_init, IsList
  <2>5. avail' \in Int
    BY <1>5, <2>1, AddType DEF ConfigLabel
  <2>6. /\ pc' \in {"open", "parse", "ret"} /\ ret' \in Int
        /\ text' \in Seq(Line) /\ c' \in Nat /\ refused' \in BOOLEAN
    BY <1>5 DEF ConfigLabel, ReadLine, Fail, NULL
  <2> QED
    BY <1>5, <2>2, <2>3, <2>4, <2>5, <2>6 DEF ConfigLabel
<1>6. ASSUME NEW l \in Line, LaterLabel(l) PROVE TypeOK'
  BY <1>6 DEF LaterLabel, ReadLine, Finish, Fail, IsList, NULL
<1>7. ASSUME NEW l \in Line, ExecLine(l) PROVE TypeOK'
  <2> DEFINE path == l.path
             size == zip.files[path].size
             clen == ROUND_UP(node_len(path), 32)
             bin  == claim(brd.exec_addr, size, claims)
             cs   == Granted(claims, bin, size)
             mod  == claim(avail, clen, cs)
             image == Use("image", NewLine, bin, size)
             node == Use("node", NewLine, mod, node_len(path))
  <2>1. path \in Path \cap DOMAIN zip.files
    BY <1>7, LinePath DEF ExecLine, CannotLoad
  <2>2. size \in Nat /\ bin \in Int /\ mod \in Int /\ node_len(path) \in Nat
    BY <2>1, ClaimType, NodeLenType DEF IsZip, BrdType
  <2>3. \A r \in cs : r.lo \in Int /\ r.len \in Nat
    BY <2>2, GrantedType
  <2>4. clen \in Nat
    BY <2>2, RoundNat
  <2>5. \A r \in claims' : r.lo \in Int /\ r.len \in Nat
    <3>1. claims' \in {claims, cs, Granted(cs, mod, clen)}
      BY <1>7 DEF ExecLine, LoadExec
    <3>2. \A r \in Granted(cs, mod, clen) : r.lo \in Int /\ r.len \in Nat
      BY <2>2, <2>3, <2>4, GrantedType
    <3> QED
      BY <3>1, <3>2, <2>3
  <2>6. \A u \in live' : IsUse(u)
    <3>1. live' \in {live, live \cup {image}, live \cup {image, node}}
      BY <1>7 DEF ExecLine, LoadExec
    <3>2. IsUse(image) /\ IsUse(node)
      BY <2>2, <1>n, UseType
    <3> QED
      BY <3>1, <3>2
  <2>7. IsList(kicklist')
    <3>1. kicklist' \in {kicklist, alist_add_tail(kicklist, mod, Module(1, path, bin))}
      BY <1>7 DEF ExecLine, LoadExec
    <3> QED
      BY <3>1, <2>1, <2>2, ModuleType, AddTailType
  <2>8. avail' \in Int
    <3>1. avail' \in {avail, Add(avail, clen)}
      BY <1>7 DEF ExecLine, LoadExec
    <3> QED
      BY <3>1, <2>4, AddType
  <2>9. /\ pc' \in {"open", "parse", "ret"} /\ ret' \in Int
        /\ text' \in Seq(Line)
        /\ UNCHANGED <<brd, zip, c>>
    BY <1>7 DEF ExecLine, LoadExec, ReadLine, Fail, NULL
  <2>10. refused' \in BOOLEAN
    BY <1>7 DEF ExecLine, LoadExec
  <2> QED
    BY <2>5, <2>6, <2>7, <2>8, <2>9, <2>10
<1>8. ASSUME NEW l \in Line, ModuleLine(l) PROVE TypeOK'
  <2> DEFINE path == l.path
             size == zip.files[path].size
             clen == module_clen(path)
             bin  == claim(avail, clen, claims)
             mod  == Add(avail, mod_offset(path))
             image == Use("image", NewLine, bin, size)
             node == Use("node", NewLine, mod, node_len(path))
  <2>1. path \in Path \cap DOMAIN zip.files
    BY <1>8, LinePath DEF ModuleLine, CannotLoad
  <2>2. size \in Nat /\ bin \in Int /\ node_len(path) \in Nat
    BY <2>1, ClaimType, NodeLenType DEF IsZip
  <2>3. mod_offset(path) \in Nat /\ mod \in Int /\ clen \in Nat
    BY <2>2, RoundNat, AddType DEF mod_offset, module_clen
  <2>5. \A r \in claims' : r.lo \in Int /\ r.len \in Nat
    <3>1. claims' \in {claims, Granted(claims, bin, clen)}
      BY <1>8 DEF ModuleLine, LoadModule
    <3> QED
      BY <3>1, <2>2, <2>3, GrantedType
  <2>6. \A u \in live' : IsUse(u)
    <3>1. live' \in {live, live \cup {image}, live \cup {image, node}}
      BY <1>8 DEF ModuleLine, LoadModule
    <3>2. IsUse(image) /\ IsUse(node)
      BY <2>2, <2>3, <1>n, UseType
    <3> QED
      BY <3>1, <3>2
  <2>7. IsList(kicklist')
    <3>1. kicklist' \in {kicklist, alist_add_tail(kicklist, mod, Module(2, path, bin))}
      BY <1>8 DEF ModuleLine, LoadModule
    <3> QED
      BY <3>1, <2>1, <2>2, <2>3, ModuleType, AddTailType
  <2>8. avail' \in Int
    BY <1>8, <2>3, AddType DEF ModuleLine, LoadModule
  <2>9. /\ pc' \in {"open", "parse", "ret"} /\ ret' \in Int
        /\ text' \in Seq(Line)
        /\ UNCHANGED <<brd, zip, c>>
    BY <1>8 DEF ModuleLine, LoadModule, ReadLine, Fail, NULL
  <2>10. refused' \in BOOLEAN
    BY <1>8 DEF ModuleLine, LoadModule
  <2> QED
    BY <2>5, <2>6, <2>7, <2>8, <2>9, <2>10
<1>9. ASSUME NEW l \in Line, BadLine(l) PROVE TypeOK'
  BY <1>9 DEF BadLine, ReadLine, Fail, NULL
<1>10. CASE EndOfText
  BY <1>10 DEF EndOfText, Finish, Fail, IsList, NULL
<1>11. CASE UNCHANGED vars
  BY <1>11 DEF vars
<1> QED
  BY <1>1, <1>2, <1>3, <1>4, <1>5, <1>6, <1>7, <1>8, <1>9, <1>10, <1>11
     DEF Next, Returned

(***************************************************************************)
(* Every variable of the loader keeps its type, for every machine, every   *)
(* zip and every text of the Kicklayout (boot_aos_zipkick).                *)
(***************************************************************************)
THEOREM TypeCorrect == Spec => []TypeOK
BY TypeInit, TypeStep, PTL DEF Spec
-----------------------------------------------------------------------------
IsRegion(r) == r.lo \in Int /\ r.len \in Nat

(* Regions within two regions that do not overlap do not overlap. *)
LEMMA Apart ==
  ASSUME NEW L, NEW H, NEW r, NEW u, IsRegion(r), IsRegion(u), Within(u, r),
         \A v \in L : IsRegion(v) /\ \E s \in H : IsRegion(s) /\ Within(v, s),
         \A s \in H : ~ Overlap(s, r)
  PROVE  \A v \in L : ~ Overlap(u, v) /\ ~ Overlap(v, u)
<1> TAKE v \in L
<1>1. PICK s \in H : IsRegion(s) /\ Within(v, s)
  OBVIOUS
<1>2. ~ Overlap(s, r) /\ IsRegion(v)
  OBVIOUS
<1> QED
  BY <1>1, <1>2 DEF IsRegion, Within, Overlap, End

(* What is in use before a step: the zip and what lies in claims. *)
Held == claims \cup {Region(zip.addr, zip.len)}

(* A new claim apart from what is held is apart from all that is in use. *)
LEMMA LiveHeld ==
  ASSUME TypeOK, ClaimsInv
  PROVE  /\ \A v \in live : IsRegion(v) /\ \E s \in Held : IsRegion(s) /\ Within(v, s)
         /\ \A s \in Held : IsRegion(s)
<1>1. IsRegion(Region(zip.addr, zip.len))
  BY DEF TypeOK, IsZip, IsRegion, Region
<1>2. \A s \in Held : IsRegion(s)
  BY <1>1 DEF TypeOK, Held, IsRegion
<1>3. Within(Use("zip", 0, zip.addr, zip.len), Region(zip.addr, zip.len))
  BY <1>1 DEF Within, Use, Region, End, IsRegion
<1>4. \A v \in live : IsRegion(v)
  BY DEF TypeOK, IsUse, IsRegion
<1> QED
  BY <1>2, <1>3, <1>4 DEF ClaimsInv, Held

(* A claim at avail that is granted ends in memory, apart from what is held. *)
LEMMA GrantedAtAvail ==
  ASSUME TypeOK, Roomy, KICKLAYOUT \in DOMAIN zip.files,
         KICKLIST_ADDR <= avail, NEW size \in Nat, avail + size < Word,
         NEW cs, \A r \in cs : IsRegion(r) /\ (IsText(r) \/ IsExec(r) \/ IsKick(r)),
         claim(avail, size, cs) \notin {NULL, PROM_ERROR}
  PROVE  /\ claim(avail, size, cs) = avail
         /\ avail + size <= brd.memsize
         /\ \A r \in cs \cup {Region(zip.addr, zip.len)} :
                ~ Overlap(r, Region(avail, size))
<1>1. claim(avail, size, cs) = avail
  BY ClaimResult
<1>2. CASE brd.of
  BY <1>1, <1>2 DEF claim, prom_claim, Roomy
<1>3. CASE ~ brd.of
  <2>1. Add(avail, size) = avail + size /\ avail + size < brd.memsize
    <3>1. avail \in Nat
      BY KickLoadAssumption DEF TypeOK
    <3>2. Add(avail, size) = avail + size
      BY <3>1, AddSmall
    <3> QED
      BY <1>1, <1>3, <3>2 DEF claim, no_claim
  <2>2. zip.addr \in Nat /\ zip.len \in Nat /\ kicklayout_len \in Nat
    BY DEF TypeOK, IsZip, kicklayout_len
  <2>3. zip.addr + (zip.len + kicklayout_len + 2) <= KICKLIST_ADDR
    BY <1>3 DEF Roomy, InitrdRegion, End, Region
  <2>4. ASSUME NEW r \in cs \cup {Region(zip.addr, zip.len)}
        PROVE  r.lo + r.len <= avail /\ IsRegion(r)
    <3>1. CASE r = Region(zip.addr, zip.len)
      BY <2>2, <2>3, <3>1, KickLoadAssumption DEF Region, TypeOK, IsRegion
    <3>2. CASE r \in cs /\ IsText(r)
      BY <2>2, <2>3, <3>2, KickLoadAssumption DEF Region, TypeOK, IsText
    <3>3. CASE r \in cs /\ IsExec(r)
      <4>1. PICK p \in DOMAIN zip.files \cap Path : r = ImageRegion(p)
        BY <3>3 DEF IsExec
      <4>2. End(ImageRegion(p)) <= KICKLIST_ADDR
        BY <1>3 DEF Roomy
      <4> QED
        BY <3>3, <4>1, <4>2, KickLoadAssumption DEF End, TypeOK, IsRegion
    <3>4. CASE r \in cs /\ IsKick(r)
      BY <3>4 DEF IsKick
    <3> QED
      BY <3>1, <3>2, <3>3, <3>4
  <2>5. avail \in Int /\ brd.memsize \in Int
    BY DEF TypeOK, BrdType
  <2> QED
    BY <1>1, <2>1, <2>4, <2>5 DEF Overlap, End, Region, IsRegion
<1> QED
  BY <1>2, <1>3

(* So does the claim at exec_addr, made while the list is still empty. *)
LEMMA GrantedAtExec ==
  ASSUME TypeOK, Roomy, ClaimsInv, KICKLAYOUT \in DOMAIN zip.files,
         NEW path \in DOMAIN zip.files \cap Path,
         \A r \in claims : IsText(r) \/ IsKick(r),
         claim(brd.exec_addr, zip.files[path].size, claims)
            \notin {NULL, PROM_ERROR}
  PROVE  /\ claim(brd.exec_addr, zip.files[path].size, claims) = brd.exec_addr
         /\ End(ImageRegion(path)) <= brd.memsize
         /\ IsRegion(ImageRegion(path))
         /\ \A r \in Held : ~ Overlap(r, ImageRegion(path))
<1> DEFINE size == zip.files[path].size
<1>1. claim(brd.exec_addr, size, claims) = brd.exec_addr
  BY ClaimResult
<1>2. IsRegion(ImageRegion(path)) /\ brd.memsize \in Nat /\ size \in Nat /\ brd.exec_addr \in Nat
  BY DEF TypeOK, BrdType, IsZip, ImageRegion, Region, IsRegion
<1>3. CASE brd.of
  <2>1. /\ brd.exec_addr + size <= brd.memsize
        /\ \A r \in claims \cup brd.taken : ~ Overlap(r, Region(brd.exec_addr, size))
    BY <1>1, <1>3 DEF claim, prom_claim
  <2>2. Region(zip.addr, zip.len) \in brd.taken
    BY <1>3 DEF Roomy
  <2> QED
    BY <1>1, <1>2, <2>1, <2>2 DEF ImageRegion, End, Region, Held
<1>4. CASE ~ brd.of
  <2>1. End(ImageRegion(path)) <= KICKLIST_ADDR
        /\ ~ Overlap(ImageRegion(path), InitrdRegion)
    BY <1>4 DEF Roomy
  <2>2. brd.exec_addr + size <= KICKLIST_ADDR
    BY <2>1 DEF End, ImageRegion, Region
  <2>3. brd.exec_addr + size < Word
    BY <1>2, <2>2, KickLoadAssumption, WordAssumption
       DEF Roomy, NoWrap, sizeof_list
  <2>4. Add(brd.exec_addr, size) = brd.exec_addr + size
    BY <1>2, <2>3, AddSmall
  <2>5. brd.exec_addr + size < brd.memsize
    BY <1>1, <1>4, <2>4 DEF claim, no_claim
  <2>6. zip.addr \in Nat /\ zip.len \in Nat /\ kicklayout_len \in Nat
    BY DEF TypeOK, IsZip, kicklayout_len
  <2>7. ASSUME NEW r \in Held PROVE ~ Overlap(r, ImageRegion(path))
    <3>0. IsRegion(r) /\ avail \in Int
      BY LiveHeld DEF TypeOK
    <3>1. CASE r = Region(zip.addr, zip.len) \/ IsText(r)
      <4>1. Within(r, InitrdRegion) /\ IsRegion(InitrdRegion)
        BY <2>6, <3>1 DEF IsText, Region, InitrdRegion, Within, End, IsRegion
      <4> QED
        BY <1>2, <2>1, <3>0, <4>1 DEF Within, End, IsRegion, Overlap
    <3>2. CASE IsKick(r)
      BY <1>2, <2>1, <3>0, <3>2, KickLoadAssumption DEF IsKick, Overlap, End, IsRegion
    <3> QED
      BY <3>1, <3>2 DEF Held
  <2> QED
    BY <1>1, <1>2, <2>5, <2>7 DEF End, ImageRegion, Region
<1> QED
  BY <1>3, <1>4
-----------------------------------------------------------------------------
(* l_head->n_succ == NULL tests that no node is linked. *)
LEMMA EmptyList ==
  ASSUME NEW l, IsList(l), Shape(l)
  PROVE  IsEmpty(l) <=> DOMAIN l.node = {}
BY KickLoadAssumption DEF IsEmpty, n_succ, HEAD, TAIL, Shape, sizeof_list, IsList

(* alist_add_tail() keeps the header and the place of the nodes. *)
LEMMA AddTailShape ==
  ASSUME NEW l, IsList(l), Shape(l), NEW n \in Int, NEW m \in NodeType,
         KICKLIST_ADDR + sizeof_list <= n
  PROVE  LET k == alist_add_tail(l, n, m)
         IN  Shape(k) /\ DOMAIN k.node # {}
<1> DEFINE k == alist_add_tail(l, n, m)
           p == l.l_tailpred
<1>1. k.node = Linked(l, n, m, p, l.at + 4) /\ DOMAIN k.node = DOMAIN l.node \cup {n}
  BY DEF alist_add_tail, Linked, TAIL
<1>2. k.at = KICKLIST_ADDR /\ k.l_tail = 0 /\ k.l_tailpred = n
  BY DEF alist_add_tail, Shape
<1>3. k.l_head \in DOMAIN k.node
  BY <1>1, KickLoadAssumption DEF alist_add_tail, Shape, HEAD, sizeof_list
<1>4. ASSUME NEW a \in DOMAIN k.node
      PROVE  KICKLIST_ADDR + sizeof_list <= a /\ k.node[a].n_succ > 0
  <2>1. CASE a = n
    <3>1. k.node[a].n_succ = l.at + 4
      BY <1>1, <2>1 DEF Linked, NodeType
    <3> QED
      BY <2>1, <3>1, KickLoadAssumption DEF Shape
  <2>2. CASE a # n
    <3>1. a \in DOMAIN l.node /\ l.node[a] \in NodeType
      BY <1>1, <1>4, <2>2 DEF IsList
    <3>2. k.node[a] = IF a = p THEN [l.node[a] EXCEPT !.n_succ = n] ELSE l.node[a]
      BY <1>1, <2>2, <3>1 DEF Linked
    <3>3. k.node[a].n_succ \in {n, l.node[a].n_succ}
      BY <3>1, <3>2 DEF NodeType
    <3> QED
      BY <3>1, <3>3, KickLoadAssumption DEF Shape, sizeof_list
  <2> QED
    BY <2>1, <2>2
<1> QED
  BY <1>1, <1>2, <1>3, <1>4 DEF Shape

(* Steps that only read the text. *)
LEMMA ClaimsUnchanged ==
  ASSUME ClaimsInv, NothingOverwritten, pc' # "ret" => pc # "ret",
         UNCHANGED <<brd, zip, avail, live, claims, refused>>
  PROVE  ClaimsInv' /\ NothingOverwritten'
BY DEF ClaimsInv, NothingOverwritten, IsText, IsExec, IsKick, ImageRegion, kicklayout_len

(* Whether the machine suits the fixed addresses does not change. *)
LEMMA RoomyStable ==
  ASSUME UNCHANGED <<brd, zip>>
  PROVE  Roomy' <=> Roomy
BY DEF Roomy, NoWrap, ImageRegion, InitrdRegion, kicklayout_len

(* The invariant holds when boot_aos_zipkick() is called. *)
LEMMA KickInit == Init => KickInv
<1> SUFFICES ASSUME Init PROVE ListInv /\ ClaimsInv /\ NothingOverwritten
  BY DEF KickInv
<1>1. ListInv
  BY KickLoadAssumption DEF Init, ListInv
<1>2. ClaimsInv
  BY DEF Init, ClaimsInv
<1>3. NothingOverwritten
  BY DEF Init, NothingOverwritten
<1> QED
  BY <1>1, <1>2, <1>3

(***************************************************************************)
(* What a step that claims memory has to show: the new claims lie in       *)
(* memory and apart from what is held, and the new uses lie in new claims  *)
(* and apart from each other.                                              *)
(***************************************************************************)
LEMMA ClaimsGrow ==
  ASSUME TypeOK, TypeOK', ClaimsInv, NothingOverwritten, ~ refused,
         UNCHANGED <<brd, zip>>,
         NEW R, \A r \in R : /\ IsRegion(r) /\ r.lo + r.len <= brd.memsize
                             /\ \A s \in Held : ~ Overlap(s, r),
         NEW U, \A u \in U : /\ IsRegion(u) /\ u.kind # "zip"
                             /\ \E r \in R : Within(u, r),
         \A u, v \in U : u # v => ~ Overlap(u, v),
         claims' = claims \cup R, live' = live \cup U,
         pc' # "ret" => \A r \in claims' : (IsText(r) \/ IsExec(r) \/ IsKick(r))'
  PROVE  ClaimsInv' /\ NothingOverwritten'
<1>1. ASSUME NEW u \in U, NEW v \in live
      PROVE  ~ Overlap(u, v) /\ ~ Overlap(v, u)
  <2>1. PICK r \in R : Within(u, r)
    OBVIOUS
  <2>2. IsRegion(u) /\ IsRegion(r) /\ \A s \in Held : ~ Overlap(s, r)
    OBVIOUS
  <2> QED
    BY <1>1, <2>1, <2>2, LiveHeld, Apart
<1>2. NothingOverwritten'
  BY <1>1 DEF NothingOverwritten
<1>3. ClaimsInv'
  BY DEF ClaimsInv
<1> QED
  BY <1>2, <1>3

(* No step changes the board or the zip, and a refusal is not forgotten. *)
LEMMA BoardStable ==
  ASSUME [Next]_vars
  PROVE  UNCHANGED <<brd, zip>>
<1>1. CASE NoKicklayout
  BY <1>1 DEF NoKicklayout
<1>2. CASE LoadKicklayout
  BY <1>2 DEF LoadKicklayout
<1>3. ASSUME NEW l \in Line, SkipLine(l) PROVE UNCHANGED <<brd, zip>>
  BY <1>3 DEF SkipLine
<1>4. ASSUME NEW l \in Line, EarlierLabel(l) PROVE UNCHANGED <<brd, zip>>
  BY <1>4 DEF EarlierLabel
<1>5. ASSUME NEW l \in Line, ConfigLabel(l) PROVE UNCHANGED <<brd, zip>>
  BY <1>5 DEF ConfigLabel
<1>6. ASSUME NEW l \in Line, LaterLabel(l) PROVE UNCHANGED <<brd, zip>>
  BY <1>6 DEF LaterLabel
<1>7. ASSUME NEW l \in Line, ExecLine(l) PROVE UNCHANGED <<brd, zip>>
  BY <1>7 DEF ExecLine
<1>8. ASSUME NEW l \in Line, ModuleLine(l) PROVE UNCHANGED <<brd, zip>>
  BY <1>8 DEF ModuleLine
<1>9. ASSUME NEW l \in Line, BadLine(l) PROVE UNCHANGED <<brd, zip>>
  BY <1>9 DEF BadLine
<1>10. CASE EndOfText
  BY <1>10 DEF EndOfText
<1>11. CASE UNCHANGED vars
  BY <1>11 DEF vars
<1> QED
  BY <1>1, <1>2, <1>3, <1>4, <1>5, <1>6, <1>7, <1>8, <1>9, <1>10, <1>11 DEF Next, Returned

(* A refused claim is not forgotten (observed by the variable refused). *)
LEMMA RefusedStays ==
  ASSUME [Next]_vars, refused
  PROVE  refused'
<1>1. CASE NoKicklayout
  BY <1>1 DEF NoKicklayout
<1>2. CASE LoadKicklayout
  BY <1>2 DEF LoadKicklayout
<1>3. ASSUME NEW l \in Line, SkipLine(l) PROVE refused'
  BY <1>3 DEF SkipLine
<1>4. ASSUME NEW l \in Line, EarlierLabel(l) PROVE refused'
  BY <1>4 DEF EarlierLabel
<1>5. ASSUME NEW l \in Line, ConfigLabel(l) PROVE refused'
  BY <1>5 DEF ConfigLabel
<1>6. ASSUME NEW l \in Line, LaterLabel(l) PROVE refused'
  BY <1>6 DEF LaterLabel
<1>7. ASSUME NEW l \in Line, ExecLine(l) PROVE refused'
  BY <1>7 DEF ExecLine, LoadExec
<1>8. ASSUME NEW l \in Line, ModuleLine(l) PROVE refused'
  BY <1>8 DEF ModuleLine, LoadModule
<1>9. ASSUME NEW l \in Line, BadLine(l) PROVE refused'
  BY <1>9 DEF BadLine
<1>10. CASE EndOfText
  BY <1>10 DEF EndOfText
<1>11. CASE UNCHANGED vars
  BY <1>11 DEF vars
<1> QED
  BY <1>1, <1>2, <1>3, <1>4, <1>5, <1>6, <1>7, <1>8, <1>9, <1>10, <1>11 DEF Next, Returned

(* Every step of boot_aos_zipkick() keeps the invariant. *)
LEMMA KickStep == TypeOK /\ TypeOK' /\ KickInv /\ [Next]_vars => KickInv'
<1> SUFFICES ASSUME TypeOK, TypeOK', KickInv, [Next]_vars, Roomy', ~ refused'
             PROVE  ListInv' /\ ClaimsInv' /\ NothingOverwritten'
  BY DEF KickInv
<1>a. UNCHANGED <<brd, zip>> /\ ~ refused
  BY BoardStable, RefusedStays
<1>b. Roomy /\ ListInv /\ ClaimsInv /\ NothingOverwritten
  BY <1>a, RoomyStable DEF KickInv
<1>t. \A r : (IsText(r)' <=> IsText(r)) /\ (IsExec(r)' <=> IsExec(r))
  BY <1>a DEF IsText, IsExec, ImageRegion, kicklayout_len
<1>1. CASE NoKicklayout
  BY <1>1, <1>b, ClaimsUnchanged DEF NoKicklayout, Fail, ListInv
<1>3. ASSUME NEW l \in Line, SkipLine(l)
      PROVE  ListInv' /\ ClaimsInv' /\ NothingOverwritten'
  <2>1. UNCHANGED <<brd, zip, pc, c, avail, kicklist, live, claims, refused>>
    BY <1>3 DEF SkipLine
  <2>2. ListInv'
    BY <1>b, <2>1 DEF ListInv, IsText, IsKick, kicklayout_len
  <2> QED
    BY <1>b, <2>1, <2>2, ClaimsUnchanged
<1>4. ASSUME NEW l \in Line, EarlierLabel(l)
      PROVE  ListInv' /\ ClaimsInv' /\ NothingOverwritten'
  <2>1. /\ UNCHANGED <<brd, zip, pc, avail, kicklist, live, claims, refused>>
        /\ pc = "parse" /\ c' = c + 1 /\ c + 1 < Config
    BY <1>4 DEF EarlierLabel, ReadLine
  <2>2. ListInv'
    BY <1>b, <2>1, KickLoadAssumption DEF ListInv, IsText, kicklayout_len, TypeOK
  <2> QED
    BY <1>b, <2>1, <2>2, ClaimsUnchanged
<1>6. ASSUME NEW l \in Line, LaterLabel(l)
      PROVE  ListInv' /\ ClaimsInv' /\ NothingOverwritten'
  <2>1. /\ UNCHANGED <<brd, zip, avail, kicklist, live, claims, refused>>
        /\ pc = "parse" /\ pc' = "ret"
    BY <1>6 DEF LaterLabel, ReadLine, Finish, Fail
  <2> QED
    BY <1>b, <2>1, ClaimsUnchanged DEF ListInv
<1>9. ASSUME NEW l \in Line, BadLine(l)
      PROVE  ListInv' /\ ClaimsInv' /\ NothingOverwritten'
  BY <1>9, <1>b, ClaimsUnchanged DEF BadLine, ReadLine, Fail, ListInv
<1>10. CASE EndOfText
  BY <1>10, <1>b, ClaimsUnchanged DEF EndOfText, Finish, Fail, ListInv
<1>11. CASE UNCHANGED vars
  <2>2. ListInv'
    BY <1>b, <1>11 DEF vars, ListInv, IsText, IsKick, kicklayout_len
  <2> QED
    BY <1>b, <1>11, <2>2, ClaimsUnchanged DEF vars
<1>2. CASE LoadKicklayout
  <2> DEFINE at == Add(zip.addr, zip.len)
             len == Add(kicklayout_len, 2)
             p == claim(at, len, claims)
             R == {Region(zip.addr + zip.len, kicklayout_len + 2)}
             U == {Use("text", 0, p, kicklayout_len + 2)}
  <2>1. /\ pc = "open" /\ c = 0 /\ claims = {} /\ UNCHANGED <<c, kicklist>>
        /\ live = {Use("zip", 0, zip.addr, zip.len)}
        /\ KICKLAYOUT \in DOMAIN zip.files
    BY <1>2, <1>b DEF LoadKicklayout, ListInv
  <2>2. zip.addr \in Nat /\ zip.len \in Nat /\ kicklayout_len \in Nat /\ brd.memsize \in Nat
    BY <2>1 DEF TypeOK, IsZip, kicklayout_len, BrdType
  <2>3. zip.addr + zip.len + kicklayout_len + 2 < Word
    BY <1>b, <2>1, <2>2, WordAssumption DEF Roomy, NoWrap, PROM_ERROR
  <2>4. at = zip.addr + zip.len /\ len = kicklayout_len + 2
    BY <2>2, <2>3, AddSmall, WordAssumption
  <2>5. p # PROM_ERROR
    BY <1>2 DEF LoadKicklayout
  <2>6. CASE p = NULL
    <3>1. pc' = "ret" /\ UNCHANGED <<live, claims>>
      BY <1>2, <2>6 DEF LoadKicklayout, Fail, Granted
    <3> QED
      BY <1>a, <1>b, <3>1 DEF ListInv, ClaimsInv, NothingOverwritten
  <2>7. CASE p # NULL
    <3>1. p = at
      BY <2>5, <2>7, ClaimResult
    <3>2. claims' = claims \cup R /\ live' = live \cup U
      BY <1>2, <2>4, <2>5, <2>7, <3>1 DEF LoadKicklayout, Granted
    <3>3. zip.addr + zip.len + (kicklayout_len + 2) <= brd.memsize
      <4>1. CASE brd.of
        BY <2>4, <2>5, <2>7, <3>1, <4>1 DEF claim, prom_claim
      <4>2. CASE ~ brd.of
        <5>1. Add(at, len) < brd.memsize
          BY <2>5, <2>7, <3>1, <4>2 DEF claim, no_claim
        <5>2. Add(at, len) = zip.addr + zip.len + (kicklayout_len + 2)
          BY <2>2, <2>3, <2>4, AddSmall, WordAssumption
        <5> QED
          BY <2>2, <5>1, <5>2
      <4> QED
        BY <4>1, <4>2
    <3>4. ASSUME NEW r \in R
          PROVE  /\ IsRegion(r) /\ r.lo + r.len <= brd.memsize
                 /\ \A s \in Held : ~ Overlap(s, r)
      BY <2>1, <2>2, <3>3 DEF IsRegion, Region, Held, Overlap, End
    <3>5. ASSUME NEW u \in U
          PROVE  /\ IsRegion(u) /\ u.kind # "zip"
                 /\ \E r \in R : Within(u, r)
      BY <2>2, <2>4, <3>1 DEF IsRegion, Use, Region, Within, End
    <3>6. \A r \in claims' : IsText(r)
      BY <2>1, <3>2 DEF IsText
    <3>7. ClaimsInv' /\ NothingOverwritten'
      <4> HIDE DEF R, U
      <4>1. \A u, v \in U : u = v
        BY DEF U
      <4> QED
        BY <1>a, <1>b, <1>t, <3>2, <3>4, <3>5, <3>6, <4>1, ClaimsGrow
    <3>8. ListInv'
      <4>1. pc' = "ret" \/ (pc' = "parse" /\ avail' = KICKLIST_ADDR)
        BY <1>2, <2>7 DEF LoadKicklayout, Fail
      <4> QED
        BY <1>a, <1>t, <2>1, <3>6, <4>1, KickLoadAssumption DEF ListInv
    <3> QED
      BY <3>7, <3>8
  <2> QED
    BY <2>6, <2>7
<1>5. ASSUME NEW l \in Line, ConfigLabel(l)
      PROVE  ListInv' /\ ClaimsInv' /\ NothingOverwritten'
  <2> DEFINE p == claim(avail, sizeof_list, claims)
             R == {Region(avail, sizeof_list)}
             U == {Use("list", NewLine, avail, sizeof_list)}
  <2>1. /\ pc = "parse" /\ c < Config /\ c' = Config
        /\ avail = KICKLIST_ADDR /\ \A r \in claims : IsText(r)
        /\ KICKLAYOUT \in DOMAIN zip.files
    BY <1>5, <1>b, KickLoadAssumption DEF ConfigLabel, ReadLine, ListInv, TypeOK
  <2>2. p # PROM_ERROR
    BY <1>5 DEF ConfigLabel
  <2>3. CASE p = NULL
    <3>1. pc' = "ret" /\ UNCHANGED <<live, claims, avail>>
      BY <1>5, <2>3 DEF ConfigLabel, Fail, Granted
    <3> QED
      BY <1>a, <1>b, <3>1 DEF ListInv, ClaimsInv, NothingOverwritten
  <2>4. CASE p # NULL
    <3>1. /\ p = avail /\ avail + sizeof_list <= brd.memsize
          /\ \A r \in Held : ~ Overlap(r, Region(avail, sizeof_list))
      <4>1. avail + sizeof_list < Word /\ sizeof_list \in Nat /\ KICKLIST_ADDR <= avail
        BY <1>b, <2>1, KickLoadAssumption DEF Roomy, NoWrap, sizeof_list
      <4>2. \A r \in claims : IsRegion(r)
        BY DEF TypeOK, IsRegion
      <4>3. claim(avail, sizeof_list, claims) \notin {NULL, PROM_ERROR}
        BY <2>2, <2>4
      <4> QED
        BY <1>b, <2>1, <4>1, <4>2, <4>3, GrantedAtAvail DEF Held
    <3>2. /\ claims' = claims \cup R /\ live' = live \cup U
          /\ kicklist' = alist_init(avail)
          /\ avail' = Add(avail, sizeof_list) /\ pc' = pc
      BY <1>5, <2>2, <2>4, <3>1 DEF ConfigLabel, Granted
    <3>3. avail' = avail + sizeof_list
      BY <1>b, <2>1, <3>2, AddSmall, KickLoadAssumption DEF Roomy, NoWrap, sizeof_list
    <3>4. ASSUME NEW r \in R
          PROVE  /\ IsRegion(r) /\ r.lo + r.len <= brd.memsize
                 /\ \A s \in Held : ~ Overlap(s, r)
      BY <3>1 DEF IsRegion, Region, sizeof_list, TypeOK
    <3>5. ASSUME NEW u \in U
          PROVE  /\ IsRegion(u) /\ u.kind # "zip"
                 /\ \E r \in R : Within(u, r)
      BY DEF IsRegion, Use, Region, Within, End, sizeof_list, TypeOK
    <3>6. \A r \in claims' : IsText(r)' \/ IsKick(r)'
      <4>1. \A r \in R : IsKick(r)'
        BY <2>1, <3>3, KickLoadAssumption DEF IsKick, Region, sizeof_list
      <4> QED
        BY <1>t, <2>1, <3>2, <4>1
    <3>7. ClaimsInv' /\ NothingOverwritten'
      <4>1. \A u, v \in U : u = v
        OBVIOUS
      <4> HIDE DEF R, U
      <4>2. \A r \in claims' : (IsText(r) \/ IsExec(r) \/ IsKick(r))'
        BY <3>6
      <4>3. /\ \A r \in R : /\ IsRegion(r) /\ r.lo + r.len <= brd.memsize
                           /\ \A s \in Held : ~ Overlap(s, r)
            /\ \A u \in U : /\ IsRegion(u) /\ u.kind # "zip"
                           /\ \E r \in R : Within(u, r)
            /\ \A u, v \in U : u # v => ~ Overlap(u, v)
        BY <3>4, <3>5, <4>1
      <4> QED
        BY <1>a, <1>b, <3>2, <4>2, <4>3, ClaimsGrow
    <3>8. ListInv'
      <4>1. Shape(kicklist')
        BY <2>1, <3>2 DEF Shape, alist_init
      <4>2. KICKLIST_ADDR + sizeof_list <= avail' /\ avail' <= brd'.memsize
        BY <1>a, <2>1, <3>1, <3>3, KickLoadAssumption DEF sizeof_list
      <4> QED
        BY <1>a, <2>1, <3>2, <3>6, <4>1, <4>2, KickLoadAssumption DEF ListInv, Shape
    <3> QED
      BY <3>7, <3>8
  <2> QED
    BY <2>3, <2>4
<1>7. ASSUME NEW l \in Line, ExecLine(l)
      PROVE  ListInv' /\ ClaimsInv' /\ NothingOverwritten'
  <2> DEFINE path == l.path
             size == zip.files[path].size
             clen == ROUND_UP(node_len(path), 32)
             bin  == claim(brd.exec_addr, size, claims)
             cs   == Granted(claims, bin, size)
             mod  == claim(avail, clen, cs)
             image == Use("image", NewLine, brd.exec_addr, size)
             node == Use("node", NewLine, avail, node_len(path))
             I == ImageRegion(path)
             N == Region(avail, clen)
  <2>1. /\ path \in Path \cap DOMAIN zip.files /\ pc = "parse" /\ c = Config
        /\ IsEmpty(kicklist) /\ UNCHANGED c
    BY <1>7, LinePath DEF ExecLine, CannotLoad, ReadLine, WantedLine
  <2>2. /\ Shape(kicklist) /\ KICKLAYOUT \in DOMAIN zip.files
        /\ KICKLIST_ADDR + sizeof_list <= avail /\ avail <= brd.memsize
        /\ \A r \in claims : IsText(r) \/ IsKick(r)
    BY <1>b, <2>1, EmptyList DEF ListInv, TypeOK
  <2>3. size \in Nat /\ node_len(path) \in Nat /\ brd.memsize \in Nat /\ avail \in Nat
    <3>1. size \in Nat /\ brd.memsize \in Nat /\ avail \in Int
      BY <2>1 DEF TypeOK, IsZip, BrdType
    <3>2. node_len(path) \in Nat
      BY <2>1, NodeLenType
    <3> QED
      BY <2>2, <3>1, <3>2, KickLoadAssumption DEF sizeof_list
  <2>4. brd.memsize + size + node_len(path) + 64 < Word
    BY <1>b, <2>1 DEF Roomy, NoWrap
  <2>5. clen \in Nat /\ node_len(path) <= clen /\ avail + clen < Word
    BY <2>2, <2>3, <2>4, RoundUp32, WordAssumption
  <2>6. bin # NULL => bin # PROM_ERROR
    BY <1>7 DEF ExecLine, LoadExec
  <2>7. CASE bin = NULL
    <3>1. pc' = "ret" /\ UNCHANGED <<live, claims>>
      BY <1>7, <2>7 DEF ExecLine, LoadExec, Fail
    <3> QED
      BY <1>a, <1>b, <3>1 DEF ListInv, ClaimsInv, NothingOverwritten
  <2>8. CASE bin # NULL
    <3>1. /\ bin = brd.exec_addr /\ End(I) <= brd.memsize /\ IsRegion(I)
          /\ \A r \in Held : ~ Overlap(r, I)
      BY <1>b, <2>1, <2>2, <2>6, <2>8, GrantedAtExec
    <3>2. cs = claims \cup {I} /\ IsExec(I)
      BY <2>1, <2>6, <2>8, <3>1 DEF Granted, ImageRegion, IsExec
    <3>3. /\ IsRegion(image) /\ image.kind # "zip" /\ Within(image, I)
          /\ I.lo + I.len <= brd.memsize
      BY <2>3, <3>1 DEF Use, IsRegion, Within, ImageRegion, Region, End
    <3>4. CASE claims' = cs /\ live' = live \cup {image} /\ pc' = "ret"
      <4>1. ClaimsInv' /\ NothingOverwritten'
        <5> DEFINE R == {I}  U == {image}
        <5>1. /\ \A r \in R : /\ IsRegion(r) /\ r.lo + r.len <= brd.memsize
                              /\ \A s \in Held : ~ Overlap(s, r)
              /\ \A u \in U : /\ IsRegion(u) /\ u.kind # "zip"
                              /\ \E r \in R : Within(u, r)
              /\ \A u, v \in U : u # v => ~ Overlap(u, v)
          BY <3>1, <3>3
        <5>2. claims' = claims \cup R /\ live' = live \cup U
          BY <3>2, <3>4
        <5> HIDE DEF R, U
        <5> QED
          BY <1>a, <1>b, <3>4, <5>1, <5>2, ClaimsGrow
      <4> QED
        BY <3>4, <4>1 DEF ListInv
    <3>5. CASE ~ (claims' = cs /\ live' = live \cup {image} /\ pc' = "ret")
      <4>1. /\ mod \notin {NULL, PROM_ERROR}
            /\ claims' = Granted(cs, mod, clen)
            /\ live' = live \cup {image, Use("node", NewLine, mod, node_len(path))}
            /\ kicklist' = alist_add_tail(kicklist, mod, Module(1, path, bin))
            /\ avail' = Add(avail, clen) /\ pc' = pc
        BY <1>7, <2>8, <3>1, <3>5 DEF ExecLine, LoadExec, Granted, Fail
      <4>2. \A r \in cs : IsRegion(r) /\ (IsText(r) \/ IsExec(r) \/ IsKick(r))
        BY <2>2, <3>1, <3>2 DEF TypeOK, IsRegion
      <4>3. /\ mod = avail /\ avail + clen <= brd.memsize
            /\ \A r \in cs \cup {Region(zip.addr, zip.len)} : ~ Overlap(r, N)
        <5>1. KICKLIST_ADDR <= avail
          BY <2>2, <2>3, KickLoadAssumption DEF sizeof_list
        <5> HIDE DEF clen, cs
        <5> QED
          BY <1>b, <2>2, <2>5, <4>1, <4>2, <5>1, GrantedAtAvail
      <4>4. avail' = avail + clen
        BY <2>3, <2>5, <4>1, AddSmall
      <4>5. claims' = claims \cup {I, N} /\ live' = live \cup {image, node}
        BY <3>2, <4>1, <4>3 DEF Granted
      <4>6. /\ IsRegion(N) /\ N.lo + N.len <= brd.memsize
            /\ IsRegion(node) /\ node.kind # "zip" /\ Within(node, N)
        BY <2>3, <2>5, <4>3 DEF IsRegion, Region, Use, Within, End
      <4>7. ~ Overlap(image, node) /\ ~ Overlap(node, image)
        <5>1. ~ Overlap(I, N)
          BY <3>2, <4>3
        <5> HIDE DEF I, N, image, node
        <5> QED
          BY <3>1, <3>3, <4>6, <5>1 DEF Overlap, Within, IsRegion, End
      <4>8. \A r \in claims' : (IsText(r) \/ IsExec(r) \/ IsKick(r))'
        <5>1. \A r \in {N} : IsKick(r)'
          BY <2>2, <2>3, <2>5, <4>4, KickLoadAssumption DEF IsKick, Region, sizeof_list
        <5>2. \A r \in claims : IsKick(r) => IsKick(r)'
          BY <2>3, <2>5, <4>4 DEF IsKick, TypeOK
        <5> HIDE DEF I, N
        <5> QED
          BY <1>t, <2>2, <3>2, <4>5, <5>1, <5>2
      <4>9. ClaimsInv' /\ NothingOverwritten'
        <5> DEFINE R == {I, N}  U == {image, node}
        <5> HIDE DEF I, N, image, node
        <5>1. /\ \A r \in R : /\ IsRegion(r) /\ r.lo + r.len <= brd.memsize
                              /\ \A s \in Held : ~ Overlap(s, r)
              /\ \A u \in U : /\ IsRegion(u) /\ u.kind # "zip"
                              /\ \E r \in R : Within(u, r)
              /\ \A u, v \in U : u # v => ~ Overlap(u, v)
          <6>1. \A s \in Held : ~ Overlap(s, N)
            BY <3>2, <4>3 DEF Held
          <6> QED
            BY <3>1, <3>3, <4>6, <4>7, <6>1
        <5>2. claims' = claims \cup R /\ live' = live \cup U
          BY <4>5
        <5> HIDE DEF R, U
        <5> QED
          BY <1>a, <1>b, <4>8, <5>1, <5>2, ClaimsGrow
      <4>10. Shape(kicklist') /\ DOMAIN kicklist'.node # {}
        <5>1. Module(1, path, bin) \in NodeType
          BY <2>1, <2>3, <3>1, ModuleType DEF TypeOK, BrdType
        <5> HIDE DEF bin, path
        <5> QED
          BY <2>2, <2>3, <4>1, <4>3, <5>1, AddTailShape DEF TypeOK
      <4>11. KICKLIST_ADDR + sizeof_list <= avail' /\ avail' <= brd'.memsize
        BY <1>a, <2>2, <2>3, <2>5, <4>3, <4>4, KickLoadAssumption DEF sizeof_list
      <4>12. ListInv'
        <5>1. pc' = "parse" /\ c' = Config /\ KICKLAYOUT \in DOMAIN zip'.files
          BY <1>a, <2>1, <2>2, <4>1
        <5> QED
          BY <4>10, <4>11, <5>1, KickLoadAssumption DEF ListInv
      <4> QED
        BY <4>9, <4>12
    <3> QED
      BY <3>4, <3>5
  <2> QED
    BY <2>7, <2>8
<1>8. ASSUME NEW l \in Line, ModuleLine(l)
      PROVE  ListInv' /\ ClaimsInv' /\ NothingOverwritten'
  <2> DEFINE path == l.path
             size == zip.files[path].size
             clen == module_clen(path)
             offs == mod_offset(path)
             bin  == claim(avail, clen, claims)
             mod  == Add(avail, offs)
             image == Use("image", NewLine, avail, size)
             node == Use("node", NewLine, avail + offs, node_len(path))
             N == Region(avail, clen)
  <2>1. /\ path \in Path \cap DOMAIN zip.files /\ pc = "parse" /\ c = Config
        /\ UNCHANGED c
    BY <1>8, LinePath DEF ModuleLine, CannotLoad, ReadLine, WantedLine
  <2>2. /\ Shape(kicklist) /\ KICKLAYOUT \in DOMAIN zip.files
        /\ KICKLIST_ADDR + sizeof_list <= avail /\ avail <= brd.memsize
    BY <1>b, <2>1 DEF ListInv
  <2>3. size \in Nat /\ node_len(path) \in Nat /\ brd.memsize \in Nat /\ avail \in Nat
    <3>1. size \in Nat /\ brd.memsize \in Nat /\ avail \in Int
      BY <2>1 DEF TypeOK, IsZip, BrdType
    <3>2. node_len(path) \in Nat
      BY <2>1, NodeLenType
    <3> QED
      BY <2>2, <3>1, <3>2, KickLoadAssumption DEF sizeof_list
  <2>4. brd.memsize + size + node_len(path) + 64 < Word
    BY <1>b, <2>1 DEF Roomy, NoWrap
  <2>5. /\ offs \in Nat /\ size <= offs /\ offs < size + 4
        /\ clen \in Nat /\ offs + node_len(path) <= clen
        /\ avail + clen < Word /\ mod = avail + offs
    <3>1. offs \in Nat /\ size <= offs /\ offs < size + 4
      BY <2>3, <2>4, RoundUp4, WordAssumption DEF mod_offset
    <3>2. Add(offs, node_len(path)) = offs + node_len(path)
      BY <2>3, <2>4, <3>1, AddSmall, WordAssumption
    <3>3. clen = ROUND_UP(offs + node_len(path), 32)
      BY <3>2 DEF module_clen
    <3>4. offs + node_len(path) + 32 < Word /\ offs + node_len(path) \in Nat
      BY <2>3, <2>4, <3>1, WordAssumption
    <3>5. /\ clen \in Nat /\ offs + node_len(path) <= clen
          /\ clen < offs + node_len(path) + 32
      BY <3>3, <3>4, RoundUp32
    <3>6. avail + clen < Word /\ avail + offs < Word
      BY <2>2, <2>3, <2>4, <3>1, <3>5, WordAssumption
    <3>7. mod = avail + offs
      BY <2>3, <3>1, <3>6, AddSmall
    <3> QED
      BY <3>1, <3>5, <3>6, <3>7
  <2>6. bin # NULL => bin # PROM_ERROR
    BY <1>8 DEF ModuleLine, LoadModule
  <2>7. CASE bin = NULL
    <3>1. pc' = "ret" /\ UNCHANGED <<live, claims>>
      BY <1>8, <2>7 DEF ModuleLine, LoadModule, Fail
    <3> QED
      BY <1>a, <1>b, <3>1 DEF ListInv, ClaimsInv, NothingOverwritten
  <2>8. CASE bin # NULL
    <3>1. /\ bin = avail /\ avail + clen <= brd.memsize
          /\ \A r \in Held : ~ Overlap(r, N)
      <4>1. KICKLIST_ADDR <= avail
        BY <2>2, <2>3, KickLoadAssumption DEF sizeof_list
      <4>2. \A r \in claims : IsRegion(r) /\ (IsText(r) \/ IsExec(r) \/ IsKick(r))
        BY <1>b, <2>1 DEF ClaimsInv, TypeOK, IsRegion
      <4>3. bin \notin {NULL, PROM_ERROR}
        BY <2>6, <2>8
      <4> HIDE DEF clen
      <4> QED
        BY <1>b, <2>2, <2>5, <4>1, <4>2, <4>3, GrantedAtAvail DEF Held
    <3>2. claims' = claims \cup {N}
      BY <1>8, <2>6, <2>8, <3>1 DEF ModuleLine, LoadModule, Granted
    <3>3. /\ IsRegion(N) /\ N.lo + N.len <= brd.memsize
          /\ IsRegion(image) /\ image.kind # "zip" /\ Within(image, N)
          /\ IsRegion(node) /\ node.kind # "zip" /\ Within(node, N)
          /\ ~ Overlap(image, node) /\ ~ Overlap(node, image)
      <4> HIDE DEF offs, clen, size
      <4> QED
        BY <2>3, <2>5, <3>1 DEF IsRegion, Region, Use, Within, End, Overlap
    <3>4. ASSUME NEW U \in {{image}, {image, node}}, live' = live \cup U,
                 pc' # "ret" => avail' = avail + clen
          PROVE  ClaimsInv' /\ NothingOverwritten'
      <4> DEFINE R == {N}
      <4>1. \A r \in R : /\ IsRegion(r) /\ r.lo + r.len <= brd.memsize
                         /\ \A s \in Held : ~ Overlap(s, r)
        BY <3>1, <3>3
      <4>2. /\ \A u \in U : /\ IsRegion(u) /\ u.kind # "zip"
                            /\ \E r \in R : Within(u, r)
            /\ \A u, v \in U : u # v => ~ Overlap(u, v)
        <5> HIDE DEF N, image, node
        <5> QED
          BY <3>3, <3>4
      <4>3. ASSUME pc' # "ret"
            PROVE  \A r \in claims' : (IsText(r) \/ IsExec(r) \/ IsKick(r))'
        <5>1. \A r \in {N} : IsKick(r)'
          BY <2>2, <2>3, <2>5, <3>4, <4>3, KickLoadAssumption DEF IsKick, Region, sizeof_list
        <5>2. \A r \in claims : IsKick(r) => IsKick(r)'
          <6>1. avail \in Nat /\ clen \in Nat /\ avail' = avail + clen
            BY <2>3, <2>5, <3>4, <4>3
          <6> HIDE DEF clen
          <6> QED
            BY <6>1 DEF IsKick, TypeOK
        <5>3. \A r \in claims : IsText(r) \/ IsExec(r) \/ IsKick(r)
          BY <1>b, <2>1 DEF ClaimsInv
        <5> HIDE DEF N
        <5> QED
          BY <1>t, <3>2, <5>1, <5>2, <5>3
      <4>4. claims' = claims \cup R
        BY <3>2
      <4> HIDE DEF R
      <4> QED
        BY <1>a, <1>b, <3>4, <4>1, <4>2, <4>3, <4>4, ClaimsGrow
    <3>5. CASE ~ zip.files[path].ok
      <4>1. live' = live \cup {image} /\ pc' = "ret"
        BY <1>8, <2>8, <3>1, <3>5 DEF ModuleLine, LoadModule, Fail
      <4> QED
        BY <3>4, <4>1 DEF ListInv
    <3>6. CASE zip.files[path].ok
      <4>1. /\ live' = live \cup {image, node} /\ pc' = pc
            /\ kicklist' = alist_add_tail(kicklist, mod, Module(2, path, bin))
            /\ avail' = avail + clen
        <5>1. /\ live' = live \cup {image, Use("node", NewLine, mod, node_len(path))}
              /\ pc' = pc /\ avail' = Add(avail, clen)
              /\ kicklist' = alist_add_tail(kicklist, mod, Module(2, path, bin))
          BY <1>8, <2>8, <3>1, <3>6 DEF ModuleLine, LoadModule
        <5>2. Add(avail, clen) = avail + clen
          BY <2>3, <2>5, AddSmall
        <5> QED
          BY <2>5, <5>1, <5>2
      <4>2. ClaimsInv' /\ NothingOverwritten'
        BY <3>4, <4>1
      <4>3. Shape(kicklist') /\ DOMAIN kicklist'.node # {}
        <5>1. Module(2, path, bin) \in NodeType
          BY <2>1, <2>3, <3>1, ModuleType DEF TypeOK
        <5>2. mod \in Int /\ KICKLIST_ADDR + sizeof_list <= mod
          BY <2>2, <2>3, <2>5, KickLoadAssumption DEF sizeof_list
        <5> HIDE DEF bin, path, mod
        <5> QED
          BY <2>2, <4>1, <5>1, <5>2, AddTailShape DEF TypeOK
      <4>4. KICKLIST_ADDR + sizeof_list <= avail' /\ avail' <= brd'.memsize
        BY <1>a, <2>2, <2>3, <2>5, <3>1, <4>1, KickLoadAssumption DEF sizeof_list
      <4>5. pc' = "parse" /\ c' = Config /\ KICKLAYOUT \in DOMAIN zip'.files
        BY <1>a, <2>1, <2>2, <4>1
      <4>6. ListInv'
        BY <4>3, <4>4, <4>5, KickLoadAssumption DEF ListInv
      <4> QED
        BY <4>2, <4>6
    <3> QED
      BY <3>5, <3>6
  <2> QED
    BY <2>7, <2>8
<1> QED
  BY <1>1, <1>2, <1>3, <1>4, <1>5, <1>6, <1>7, <1>8, <1>9, <1>10, <1>11
     DEF Next, Returned

(* The inductive invariant about claims, uses and the list always holds. *)
LEMMA KickCorrect == Spec => []KickInv
BY TypeCorrect, KickInit, KickStep, PTL DEF Spec

(***************************************************************************)
(* On a machine with room, nothing the loader has in use is written over:  *)
(* for every board, zip, file size and text, although no_claim() keeps no  *)
(* record of what it granted.                                              *)
(***************************************************************************)
THEOREM Disjointness == Spec => []LiveRegionsDisjoint
<1>1. KickInv => LiveRegionsDisjoint
  BY DEF KickInv, LiveRegionsDisjoint, NothingOverwritten
<1> QED
  BY <1>1, KickCorrect, PTL

(***************************************************************************)
(* Every byte the loader writes (load_module_from_zip, add_module, the     *)
(* terminator of the Kicklayout) lies in a region claim() granted it.      *)
(***************************************************************************)
THEOREM Containment == Spec => []WritesWithinClaims
<1>1. KickInv => WritesWithinClaims
  BY DEF KickInv, WritesWithinClaims, ClaimsInv, Use
<1> QED
  BY <1>1, KickCorrect, PTL

(***************************************************************************)
(* What claim() grants the loader ends within the memory of the machine,   *)
(* also where no_claim() compares a sum that could wrap around.            *)
(***************************************************************************)
THEOREM InMemory == Spec => []ClaimsWithinMemory
<1>1. KickInv => ClaimsWithinMemory
  BY DEF KickInv, ClaimsWithinMemory, ClaimsInv
<1> QED
  BY <1>1, KickCorrect, PTL
-----------------------------------------------------------------------------
(***************************************************************************)
(* The list l has the nodes f[1] .. f[n], linked in this order.            *)
(***************************************************************************)
Chain(l, n, f) ==
    /\ n \in Nat /\ f \in [1 .. n -> Int] /\ l.at \in Int
    /\ DOMAIN l.node = {f[k] : k \in 1 .. n}
    /\ \A j, k \in 1 .. n : f[j] = f[k] => j = k
    /\ HEAD(l) \notin DOMAIN l.node /\ TAIL(l) \notin DOMAIN l.node
    /\ l.l_head = (IF n = 0 THEN TAIL(l) ELSE f[1]) /\ l.l_tail = 0
    /\ l.l_tailpred = IF n = 0 THEN HEAD(l) ELSE f[n]
    /\ \A k \in 1 .. n : /\ l.node[f[k]].n_succ = IF k = n THEN TAIL(l) ELSE f[k + 1]
                         /\ l.node[f[k]].n_pred = IF k = 1 THEN HEAD(l) ELSE f[k - 1]

(* The sequence f of length n with a behind it. *)
Longer(n, f, a) == [k \in 1 .. n + 1 |-> IF k = n + 1 THEN a ELSE f[k]]

(* What add_module() writes besides the links. *)
SamePayload(m, o) == /\ m.name = o.name /\ m.id = o.id
                     /\ m.address = o.address /\ m.size = o.size

(* It has n nodes. *)
LEMMA ChainSize ==
  ASSUME NEW l, NEW n, NEW f, Chain(l, n, f)
  PROVE  Size(l) = n
<1>1. f \in Bijection(1 .. n, DOMAIN l.node)
  BY DEF Chain, Bijection, Injection, Surjection, IsInjective
<1>2. ExistsBijection(1 .. n, DOMAIN l.node)
  BY <1>1 DEF ExistsBijection
<1>3. n \in Nat
  BY DEF Chain
<1> QED
  BY <1>2, <1>3, FS_CountingElements DEF Size

(* The header and the nodes in the order of a walk. *)
LEMMA ChainSucc ==
  ASSUME NEW l, NEW n, NEW f, Chain(l, n, f)
  PROVE  /\ n_succ(l, HEAD(l)) = IF n = 0 THEN TAIL(l) ELSE f[1]
         /\ n_pred(l, TAIL(l)) = IF n = 0 THEN HEAD(l) ELSE f[n]
         /\ \A k \in 1 .. n : /\ n_succ(l, f[k]) = IF k = n THEN TAIL(l) ELSE f[k + 1]
                              /\ n_pred(l, f[k]) = IF k = 1 THEN HEAD(l) ELSE f[k - 1]
<1>1. /\ n_succ(l, HEAD(l)) = IF n = 0 THEN TAIL(l) ELSE f[1]
      /\ n_pred(l, TAIL(l)) = IF n = 0 THEN HEAD(l) ELSE f[n]
  BY DEF Chain, n_succ, n_pred
<1>2. ASSUME NEW k \in 1 .. n
      PROVE  /\ n_succ(l, f[k]) = IF k = n THEN TAIL(l) ELSE f[k + 1]
             /\ n_pred(l, f[k]) = IF k = 1 THEN HEAD(l) ELSE f[k - 1]
  <2>1. f[k] \in DOMAIN l.node /\ f[k] # HEAD(l) /\ f[k] # TAIL(l)
    BY DEF Chain
  <2>2. n_succ(l, f[k]) = l.node[f[k]].n_succ /\ n_pred(l, f[k]) = l.node[f[k]].n_pred
    BY <2>1 DEF n_succ, n_pred
  <2> QED
    BY <2>2 DEF Chain
<1> QED
  BY <1>1, <1>2

(* Following n_succ from the header meets the nodes in their order. *)
LEMMA ChainForward ==
  ASSUME NEW l, NEW n, NEW f, Chain(l, n, f)
  PROVE  Forward(l) = f
<1> DEFINE P(at) == at = [k \in 0 .. Size(l) |-> IF k = 0 THEN HEAD(l) ELSE n_succ(l, at[k - 1])]
           g == [k \in 0 .. n |-> IF k = 0 THEN HEAD(l) ELSE f[k]]
<1>s. Size(l) = n
  BY ChainSize
<1>0. n \in Nat /\ Size(l) = n /\ f \in [1 .. n -> Int]
  BY <1>s DEF Chain
<1>1. P(g)
  <2>1. ASSUME NEW k \in 0 .. n, k # 0 PROVE g[k] = n_succ(l, g[k - 1])
    <3>1. k - 1 \in 0 .. n /\ g[k] = f[k]
      BY <1>0, <2>1
    <3>2. CASE k = 1
      <4>1. g[k - 1] = HEAD(l) /\ n # 0
        BY <3>1, <3>2, <1>0
      <4> QED
        BY <4>1, <3>1, <3>2, ChainSucc
    <3>3. CASE k # 1
      <4>1. k - 1 \in 1 .. n /\ k - 1 # n /\ (k - 1) + 1 = k /\ k - 1 # 0
        BY <3>3, <1>0, <2>1
      <4>2. g[k - 1] = f[k - 1]
        BY <4>1, <3>1
      <4>3. n_succ(l, f[k - 1]) = f[(k - 1) + 1]
        BY <4>1, ChainSucc
      <4> QED
        BY <4>1, <4>2, <4>3, <3>1
    <3> QED
      BY <3>2, <3>3
  <2>2. \A k \in 0 .. n : g[k] = IF k = 0 THEN HEAD(l) ELSE n_succ(l, g[k - 1])
    BY <2>1
  <2> HIDE DEF g
  <2>3. g = [k \in 0 .. n |-> g[k]]
    BY DEF g
  <2> QED
    BY <2>2, <2>3, <1>0
<1>2. ForwardAt(l) = CHOOSE at : P(at)
  BY DEF ForwardAt
<1> HIDE DEF P
<1>3. P(ForwardAt(l))
  BY <1>1, <1>2
<1> USE DEF P
<1> DEFINE T == {k \in 0 .. n : ForwardAt(l)[k] = g[k]}
<1>4. \A k \in 0 .. n : ForwardAt(l)[k] = IF k = 0 THEN HEAD(l) ELSE n_succ(l, ForwardAt(l)[k - 1])
  <2>1. ForwardAt(l) = [k \in 0 .. n |-> IF k = 0 THEN HEAD(l) ELSE n_succ(l, ForwardAt(l)[k - 1])]
    BY <1>3, <1>0
  <2> QED
    BY <2>1
<1>5. \A k \in 0 .. n : g[k] = IF k = 0 THEN HEAD(l) ELSE n_succ(l, g[k - 1])
  <2>1. g = [k \in 0 .. n |-> IF k = 0 THEN HEAD(l) ELSE n_succ(l, g[k - 1])]
    BY <1>1, <1>0
  <2> HIDE DEF g
  <2> QED
    BY <2>1
<1> HIDE DEF P, g
<1>6. 0 \in T
  BY <1>4, <1>5, <1>0
<1>7. ASSUME NEW k \in 0 .. n - 1, k \in T PROVE k + 1 \in T
  <2>1. k + 1 \in 0 .. n /\ k + 1 # 0 /\ (k + 1) - 1 = k
    BY <1>0
  <2>2. ForwardAt(l)[k + 1] = n_succ(l, ForwardAt(l)[k])
    BY <2>1, <1>4
  <2>3. g[k + 1] = n_succ(l, g[k])
    BY <2>1, <1>5
  <2> QED
    BY <2>1, <2>2, <2>3, <1>7
<1> HIDE DEF T
<1>8. \A k \in 0 .. n : k \in T
  BY <1>0, <1>6, <1>7, IntervalInduction
<1>9. \A k \in 1 .. n : ForwardAt(l)[k] = f[k]
  BY <1>8, <1>0 DEF T, g
<1> QED
  BY <1>9, <1>0 DEF Forward

(* Following n_pred from the tail meets them in the reverse order. *)
LEMMA ChainBackward ==
  ASSUME NEW l, NEW n, NEW f, Chain(l, n, f)
  PROVE  \A k \in 1 .. n : Backward(l)[k] = f[(n + 1) - k]
<1> DEFINE P(at) == at = [k \in 0 .. Size(l) |-> IF k = 0 THEN TAIL(l) ELSE n_pred(l, at[k - 1])]
           g == [k \in 0 .. n |-> IF k = 0 THEN TAIL(l) ELSE f[(n + 1) - k]]
<1>s. Size(l) = n
  BY ChainSize
<1>0. n \in Nat /\ Size(l) = n /\ f \in [1 .. n -> Int]
  BY <1>s DEF Chain
<1>1. P(g)
  <2>1. ASSUME NEW k \in 0 .. n, k # 0 PROVE g[k] = n_pred(l, g[k - 1])
    <3>1. k - 1 \in 0 .. n /\ g[k] = f[(n + 1) - k]
      BY <1>0, <2>1
    <3>2. CASE k = 1
      <4>1. g[k - 1] = TAIL(l) /\ n # 0 /\ (n + 1) - k = n
        BY <3>1, <3>2, <1>0
      <4> QED
        BY <4>1, <3>1, ChainSucc
    <3>3. CASE k # 1
      <4>1. (n + 1) - (k - 1) \in 1 .. n /\ (n + 1) - (k - 1) # 1 /\ k - 1 # 0
            /\ ((n + 1) - (k - 1)) - 1 = (n + 1) - k
        BY <3>3, <1>0, <2>1
      <4>2. g[k - 1] = f[(n + 1) - (k - 1)]
        BY <4>1, <3>1
      <4>3. n_pred(l, f[(n + 1) - (k - 1)]) = f[((n + 1) - (k - 1)) - 1]
        BY <4>1, ChainSucc
      <4> QED
        BY <4>1, <4>2, <4>3, <3>1
    <3> QED
      BY <3>2, <3>3
  <2>2. \A k \in 0 .. n : g[k] = IF k = 0 THEN TAIL(l) ELSE n_pred(l, g[k - 1])
    BY <2>1
  <2> HIDE DEF g
  <2>3. g = [k \in 0 .. n |-> g[k]]
    BY DEF g
  <2> QED
    BY <2>2, <2>3, <1>0
<1>2. BackwardAt(l) = CHOOSE at : P(at)
  BY DEF BackwardAt
<1> HIDE DEF P
<1>3. P(BackwardAt(l))
  BY <1>1, <1>2
<1> USE DEF P
<1> DEFINE T == {k \in 0 .. n : BackwardAt(l)[k] = g[k]}
<1>4. \A k \in 0 .. n : BackwardAt(l)[k] = IF k = 0 THEN TAIL(l) ELSE n_pred(l, BackwardAt(l)[k - 1])
  <2>1. BackwardAt(l) = [k \in 0 .. n |-> IF k = 0 THEN TAIL(l) ELSE n_pred(l, BackwardAt(l)[k - 1])]
    BY <1>3, <1>0
  <2> QED
    BY <2>1
<1>5. \A k \in 0 .. n : g[k] = IF k = 0 THEN TAIL(l) ELSE n_pred(l, g[k - 1])
  <2>1. g = [k \in 0 .. n |-> IF k = 0 THEN TAIL(l) ELSE n_pred(l, g[k - 1])]
    BY <1>1, <1>0
  <2> HIDE DEF g
  <2> QED
    BY <2>1
<1> HIDE DEF P, g
<1>6. 0 \in T
  BY <1>4, <1>5, <1>0
<1>7. ASSUME NEW k \in 0 .. n - 1, k \in T PROVE k + 1 \in T
  <2>1. k + 1 \in 0 .. n /\ k + 1 # 0 /\ (k + 1) - 1 = k
    BY <1>0
  <2>2. BackwardAt(l)[k + 1] = n_pred(l, BackwardAt(l)[k])
    BY <2>1, <1>4
  <2>3. g[k + 1] = n_pred(l, g[k])
    BY <2>1, <1>5
  <2> QED
    BY <2>1, <2>2, <2>3, <1>7
<1> HIDE DEF T
<1>8. \A k \in 0 .. n : k \in T
  BY <1>0, <1>6, <1>7, IntervalInduction
<1>9. \A k \in 1 .. n : BackwardAt(l)[k] = f[(n + 1) - k]
  BY <1>8, <1>0 DEF T, g
<1> QED
  BY <1>9, <1>0 DEF Backward

(* Such a list is well formed. *)
LEMMA ChainWellFormed ==
  ASSUME NEW l, NEW n, NEW f, Chain(l, n, f)
  PROVE  WellFormed(l)
<1>1. Size(l) = n /\ Forward(l) = f
  BY ChainSize, ChainForward
<1>2. \A k \in 1 .. n : Backward(l)[k] = f[(n + 1) - k]
  BY ChainBackward
<1>3. n \in Nat /\ {f[k] : k \in 1 .. n} = DOMAIN l.node /\ l.l_tail = 0
  BY DEF Chain
<1>4. n > 0 => n_succ(l, f[n]) = TAIL(l) /\ n_pred(l, f[1]) = HEAD(l)
  <2>1. n > 0 => n \in 1 .. n /\ 1 \in 1 .. n
    BY <1>3
  <2> QED
    BY <2>1, ChainSucc
<1>5. n = 0 => l.l_head = TAIL(l) /\ l.l_tailpred = HEAD(l)
  BY DEF Chain
<1> QED
  BY <1>1, <1>2, <1>3, <1>4, <1>5 DEF WellFormed

(* alist_init() makes an empty list. *)
LEMMA ChainInit ==
  ASSUME NEW at \in Int
  PROVE  Chain(alist_init(at), 0, [k \in 1 .. 0 |-> 0])
BY DEF Chain, alist_init, HEAD, TAIL

(***************************************************************************)
(* alist_add_tail() puts a node that is not in the list at its end, also   *)
(* when the last node is the header itself.                                *)
(***************************************************************************)
LEMMA ChainAppend ==
  ASSUME NEW l, NEW n, NEW f, Chain(l, n, f), IsList(l),
         NEW a \in Int, a \notin DOMAIN l.node, a # HEAD(l), a # TAIL(l), NEW m \in NodeType
  PROVE  /\ Chain(alist_add_tail(l, a, m), n + 1, Longer(n, f, a))
         /\ SamePayload(alist_add_tail(l, a, m).node[a], m)
         /\ \A b \in DOMAIN l.node : SamePayload(alist_add_tail(l, a, m).node[b], l.node[b])
<1> DEFINE w == alist_add_tail(l, a, m)
           g == [k \in 1 .. n + 1 |-> IF k = n + 1 THEN a ELSE f[k]]
<1>0. n \in Nat /\ f \in [1 .. n -> Int] /\ l.at \in Int
  BY DEF Chain
<1>1. /\ w.at = l.at /\ w.l_tail = l.l_tail /\ w.l_tailpred = a
      /\ w.l_head = IF l.l_tailpred = HEAD(l) THEN a ELSE l.l_head
      /\ w.node = Linked(l, a, m, l.l_tailpred, TAIL(l))
  BY DEF alist_add_tail
<1>2. HEAD(w) = HEAD(l) /\ TAIL(w) = TAIL(l)
  BY <1>1 DEF HEAD, TAIL
<1>3. DOMAIN w.node = DOMAIN l.node \cup {a}
  BY <1>1 DEF Linked
<1>4. w.node[a] = [m EXCEPT !.n_succ = TAIL(l), !.n_pred = l.l_tailpred]
  BY <1>1 DEF Linked
<1>5. \A b \in DOMAIN l.node : w.node[b] = IF b = l.l_tailpred THEN [l.node[b] EXCEPT !.n_succ = a] ELSE l.node[b]
  BY <1>1 DEF Linked
<1>6. w.node[a].n_succ = TAIL(l) /\ w.node[a].n_pred = l.l_tailpred
  BY <1>4 DEF NodeType
<1>7. \A b \in DOMAIN l.node : /\ w.node[b].n_succ = IF b = l.l_tailpred THEN a ELSE l.node[b].n_succ
                               /\ w.node[b].n_pred = l.node[b].n_pred
  BY <1>5 DEF IsList, NodeType
<1> HIDE DEF w
<1>8. g \in [1 .. n + 1 -> Int] /\ n + 1 \in Nat /\ n + 1 # 0 /\ g[n + 1] = a /\ \A k \in 1 .. n : g[k] = f[k]
  BY <1>0
<1>9. DOMAIN w.node = {g[k] : k \in 1 .. n + 1}
  <2>1. DOMAIN w.node = {f[k] : k \in 1 .. n} \cup {a}
    BY <1>3 DEF Chain
  <2> QED
    BY <2>1, <1>8, <1>0
<1>10. \A j, k \in 1 .. n + 1 : g[j] = g[k] => j = k
  <2> TAKE j \in 1 .. n + 1, k \in 1 .. n + 1
  <2>1. \A i \in 1 .. n : f[i] # a
    BY DEF Chain
  <2>2. j = n + 1 \/ j \in 1 .. n
    BY <1>0
  <2>3. k = n + 1 \/ k \in 1 .. n
    BY <1>0
  <2> QED
    BY <2>1, <2>2, <2>3, <1>8 DEF Chain
<1>11. HEAD(w) \notin DOMAIN w.node /\ TAIL(w) \notin DOMAIN w.node
  BY <1>2, <1>3 DEF Chain
<1>12. w.l_head = g[1]
  <2>1. CASE n = 0
    BY <2>1, <1>1, <1>8 DEF Chain
  <2>2. CASE n # 0
    <3>1. 1 \in 1 .. n /\ n \in 1 .. n
      BY <2>2, <1>0
    <3>2. l.l_tailpred = f[n] /\ f[n] \in DOMAIN l.node /\ l.l_head = f[1]
      BY <3>1, <2>2 DEF Chain
    <3>3. l.l_tailpred # HEAD(l)
      BY <3>2 DEF Chain
    <3> QED
      BY <3>1, <3>2, <3>3, <1>1, <1>8
  <2> QED
    BY <2>1, <2>2
<1>13. ASSUME NEW k \in 1 .. n + 1
       PROVE  /\ w.node[g[k]].n_succ = IF k = n + 1 THEN TAIL(w) ELSE g[k + 1]
              /\ w.node[g[k]].n_pred = IF k = 1 THEN HEAD(w) ELSE g[k - 1]
  <2>1. CASE k = n + 1
    <3>1. w.node[g[k]].n_succ = TAIL(w) /\ w.node[g[k]].n_pred = l.l_tailpred
      BY <2>1, <1>2, <1>6, <1>8
    <3>2. CASE n = 0
      BY <2>1, <3>1, <3>2, <1>2 DEF Chain
    <3>3. CASE n # 0
      <4>1. k - 1 = n /\ n \in 1 .. n /\ k # 1
        BY <2>1, <3>3, <1>0
      <4> QED
        BY <2>1, <3>1, <3>3, <4>1, <1>8 DEF Chain
    <3> QED
      BY <3>2, <3>3
  <2>2. CASE k # n + 1
    <3>1. k \in 1 .. n /\ g[k] = f[k] /\ f[k] \in DOMAIN l.node
      BY <2>2, <1>0, <1>8 DEF Chain
    <3>2. l.l_tailpred = f[n] /\ n # 0 /\ n \in 1 .. n
      BY <3>1, <1>0 DEF Chain
    <3>3. f[k] = f[n] <=> k = n
      BY <3>1, <3>2 DEF Chain
    <3>4. w.node[g[k]].n_succ = IF k = n THEN a ELSE l.node[f[k]].n_succ
      BY <3>1, <3>2, <3>3, <1>7
    <3>7. w.node[g[k]].n_succ = IF k = n + 1 THEN TAIL(w) ELSE g[k + 1]
      <4>1. CASE k = n
        BY <3>4, <4>1, <2>2, <1>8
      <4>2. CASE k # n
        <5>1. k + 1 \in 1 .. n
          BY <3>1, <4>2, <1>0
        <5>2. l.node[f[k]].n_succ = f[k + 1]
          BY <3>1, <4>2 DEF Chain
        <5> QED
          BY <3>4, <4>2, <5>1, <5>2, <2>2, <1>8
      <4> QED
        BY <4>1, <4>2
    <3>8. w.node[g[k]].n_pred = IF k = 1 THEN HEAD(w) ELSE g[k - 1]
      <4>1. w.node[g[k]].n_pred = l.node[f[k]].n_pred
        BY <3>1, <1>7
      <4>2. k # 1 => k - 1 \in 1 .. n
        BY <3>1, <1>0
      <4>3. l.node[f[k]].n_pred = IF k = 1 THEN HEAD(l) ELSE f[k - 1]
        BY <3>1 DEF Chain
      <4> QED
        BY <4>1, <4>2, <4>3, <1>2, <1>8
    <3> QED
      BY <3>7, <3>8
  <2> QED
    BY <2>1, <2>2
<1>14. w.l_tail = 0 /\ w.at \in Int
  BY <1>1 DEF Chain
<1> HIDE DEF g
<1>15. Chain(w, n + 1, g)
  BY <1>1, <1>8, <1>9, <1>10, <1>11, <1>12, <1>13, <1>14 DEF Chain
<1>16. SamePayload(w.node[a], m) /\ \A b \in DOMAIN l.node : SamePayload(w.node[b], l.node[b])
  BY <1>4, <1>5 DEF SamePayload, IsList, NodeType
<1> QED
  BY <1>15, <1>16 DEF w, g, Longer
-----------------------------------------------------------------------------
(* One more line: the labels and the lines of the configuration. *)
LEMMA TextGrows ==
  ASSUME NEW t \in Seq(Line), NEW l \in Line
  PROVE  LET u == Append(t, l)
             n == Len(t) + 1
             labels == LabelsUpTo(t, Len(t)) + (IF l.kw = "LABEL" THEN 1 ELSE 0)
         IN  /\ Len(u) = n /\ u[n] = l /\ \A i \in 1 .. Len(t) : u[i] = t[i]
             /\ LabelsUpTo(u, Len(u)) = labels
             /\ ConfigLines(u) = ConfigLines(t) \cup
                    (IF labels = Config /\ l.kw \notin {"LABEL", "COMMENT"} THEN {n} ELSE {})
<1> DEFINE u == Append(t, l)
           n == Len(t) + 1
           labels == LabelsUpTo(t, Len(t)) + (IF l.kw = "LABEL" THEN 1 ELSE 0)
           S(s, i) == {j \in 1 .. i : s[j].kw = "LABEL"}
<1>1. Len(t) \in Nat /\ Len(u) = n /\ u[n] = l /\ \A i \in 1 .. Len(t) : u[i] = t[i]
  OBVIOUS
<1> HIDE DEF u
<1>2. \A i \in 1 .. Len(t) : S(u, i) = S(t, i)
  BY <1>1
<1>3. \A i \in 1 .. Len(t) : LabelsUpTo(u, i) = LabelsUpTo(t, i)
  BY <1>2 DEF LabelsUpTo
<1>4. LabelsUpTo(u, n) = labels
  <2>1. S(u, n) = S(t, Len(t)) \cup (IF l.kw = "LABEL" THEN {n} ELSE {})
    BY <1>1
  <2>2. IsFiniteSet(S(t, Len(t))) /\ Cardinality(S(t, Len(t))) \in Nat
    <3>1. IsFiniteSet(1 .. Len(t))
      BY <1>1, FS_Interval
    <3>2. S(t, Len(t)) \in SUBSET (1 .. Len(t))
      OBVIOUS
    <3>3. IsFiniteSet(S(t, Len(t)))
      BY <3>1, <3>2, FS_Subset
    <3> QED
      BY <3>3, FS_CardinalityType
  <2>3. n \notin S(t, Len(t))
    BY <1>1
  <2>4. LabelsUpTo(u, n) = Cardinality(S(u, n)) /\ LabelsUpTo(t, Len(t)) = Cardinality(S(t, Len(t)))
    BY DEF LabelsUpTo
  <2> HIDE DEF S
  <2>5. CASE l.kw = "LABEL"
    <3>1. S(u, n) = S(t, Len(t)) \cup {n}
      BY <2>1, <2>5
    <3>2. Cardinality(S(t, Len(t)) \cup {n}) = Cardinality(S(t, Len(t))) + 1
      BY <2>2, <2>3, FS_AddElement
    <3> QED
      BY <2>4, <2>5, <3>1, <3>2
  <2>6. CASE l.kw # "LABEL"
    <3>1. S(u, n) = S(t, Len(t))
      BY <2>1, <2>6
    <3> QED
      BY <2>2, <2>4, <2>6, <3>1
  <2> QED
    BY <2>5, <2>6
<1>5. ConfigLines(u) = ConfigLines(t) \cup
        (IF labels = Config /\ l.kw \notin {"LABEL", "COMMENT"} THEN {n} ELSE {})
  <2>1. \A i \in 1 .. n : i \in 1 .. Len(t) \/ i = n
    BY <1>1
  <2>2. \A i \in 1 .. Len(t) : i \in 1 .. n
    BY <1>1
  <2>3. n \in 1 .. n
    BY <1>1
  <2> HIDE DEF labels, n
  <2> QED
    BY <1>1, <1>3, <1>4, <2>1, <2>2, <2>3 DEF ConfigLines
<1> QED
  BY <1>1, <1>4, <1>5 DEF u

(***************************************************************************)
(* The modules f[1] .. f[n] were loaded from the lines g[1] .. g[n], which *)
(* are those of the configuration in their order.                          *)
(***************************************************************************)
Follows(n, f, g) ==
    /\ g \in [1 .. n -> 1 .. Len(text)]
    /\ \A j, k \in 1 .. n : j < k => g[j] < g[k]
    /\ ConfigLines(text) = {g[k] : k \in 1 .. n}
    /\ \A k \in 1 .. n : LoadedAs(g[k], k, f[k])

Aligned == \A a \in DOMAIN kicklist.node : (a - kicklist.at) % 4 = 0

(* The configuration is being read. *)
Loading == pc # "ret" /\ c = Config

(***************************************************************************)
(* The inductive invariant about the order of the list: there is a chain   *)
(* of nodes, each at a multiple of four behind the header and below avail, *)
(* and they follow the lines read so far.                                  *)
(***************************************************************************)
ReadInv ==
    /\ pc = "open" => text = << >>
    /\ pc # "ret" => c = LabelsUpTo(text, Len(text)) /\ ret = NULL
    /\ pc # "ret" /\ c < Config => kicklist = NoList /\ ConfigLines(text) = {}

ChainInv ==
    /\ kicklist = NoList \/ (Aligned /\ \E n, f : Chain(kicklist, n, f))
    /\ Loading => /\ (avail - kicklist.at) % 4 = 0
                  /\ \A a \in DOMAIN kicklist.node : a < avail

FollowInv ==
    /\ Loading \/ ret # NULL => \E n, f, g : Chain(kicklist, n, f) /\ Follows(n, f, g)
    /\ ret # NULL => DOMAIN kicklist.node # {} /\ kicklist.at # NULL

OrderInv == Roomy /\ ~ refused => ReadInv /\ ChainInv /\ FollowInv

(* What the loader rounds to a word stays on a word boundary. *)
LEMMA RoundMod ==
  ASSUME NEW n \in Nat
  PROVE  ROUND_UP(n, 4) % 4 = 0 /\ ROUND_UP(n, 32) % 4 = 0
<1>1. Add(n, 3) \in Nat /\ Add(n, 31) \in Nat
  BY AddType
<1>2. ROUND_UP(n, 4) = Add(n, 3) - (Add(n, 3) % 4)
  BY DEF ROUND_UP, ROUND_DOWN, Add
<1>3. ROUND_UP(n, 32) = Add(n, 31) - (Add(n, 31) % 32)
  BY DEF ROUND_UP, ROUND_DOWN, Add
<1> HIDE DEF Add
<1> QED
  BY <1>1, <1>2, <1>3

(***************************************************************************)
(* load_module_from_zip() when it succeeds: the struct goes on a word      *)
(* boundary between avail and the new avail and is added to the list, the  *)
(* line is an EXEC exactly when the list was empty, and what was written   *)
(* is in use.                                                              *)
(***************************************************************************)
Loads(l, a, b) ==
    /\ kicklist' = alist_add_tail(kicklist, a,
                        Module(IF IsEmpty(kicklist) THEN 1 ELSE 2, l.path, b))
    /\ avail <= a /\ a < avail'
    /\ (a - avail) % 4 = 0 /\ (avail' - avail) % 4 = 0
    /\ live \subseteq live'
    /\ Use("image", NewLine, b, zip.files[l.path].size) \in live'
    /\ Use("node", NewLine, a, node_len(l.path)) \in live'
    /\ l.kw = IF IsEmpty(kicklist) THEN "EXEC" ELSE "MODULE"
    /\ IsEmpty(kicklist) => b = brd.exec_addr

(* An EXEC line that is loaded. *)
LEMMA ExecLoads ==
  ASSUME TypeOK, Roomy, ListInv, ~ refused', NEW l \in Line, ExecLine(l), pc' # "ret"
  PROVE  \E a, b \in Int : Loads(l, a, b)
<1> DEFINE path == l.path
           size == zip.files[path].size
           clen == ROUND_UP(node_len(path), 32)
           bin  == claim(brd.exec_addr, size, claims)
           cs   == Granted(claims, bin, size)
           mod  == claim(avail, clen, cs)
<1>1. /\ path \in Path \cap DOMAIN zip.files /\ pc = "parse" /\ c = Config
      /\ IsEmpty(kicklist) /\ l.kw = "EXEC"
  BY LinePath DEF ExecLine, CannotLoad, ReadLine, WantedLine
<1>2. /\ bin \notin {NULL, PROM_ERROR} /\ mod \notin {NULL, PROM_ERROR}
      /\ kicklist' = alist_add_tail(kicklist, mod, Module(1, path, bin))
      /\ avail' = Add(avail, clen)
      /\ live' = live \cup {Use("image", NewLine, bin, size),
                            Use("node", NewLine, mod, node_len(path))}
  BY DEF ExecLine, LoadExec, Fail
<1>3. bin = brd.exec_addr /\ mod = avail
  BY <1>2, ClaimResult
<1>4. KICKLIST_ADDR + sizeof_list <= avail /\ avail <= brd.memsize
  BY <1>1 DEF ListInv
<1>5. size \in Nat /\ node_len(path) \in Nat /\ node_len(path) > 0
      /\ brd.memsize \in Nat /\ avail \in Nat /\ brd.exec_addr \in Int
  <2>1. size \in Nat /\ brd.memsize \in Nat /\ avail \in Int /\ brd.exec_addr \in Int
    BY <1>1 DEF TypeOK, IsZip, BrdType
  <2>2. node_len(path) \in Nat /\ node_len(path) > 0
    BY <1>1, NodeLenType
  <2> QED
    BY <1>4, <2>1, <2>2, KickLoadAssumption DEF sizeof_list
<1>6. brd.memsize + size + node_len(path) + 64 < Word
  BY <1>1 DEF Roomy, NoWrap
<1>7. clen \in Nat /\ node_len(path) <= clen /\ avail + clen < Word
  BY <1>4, <1>5, <1>6, RoundUp32, WordAssumption
<1>8. avail' = avail + clen
  BY <1>2, <1>5, <1>7, AddSmall
<1>9. clen % 4 = 0
  BY <1>5, RoundMod
<1>10. /\ avail <= mod /\ mod < avail' /\ mod \in Int
       /\ (mod - avail) % 4 = 0 /\ (avail' - avail) % 4 = 0
  <2>1. (avail + clen) - avail = clen /\ avail - avail = 0
    BY <1>5, <1>7
  <2> HIDE DEF clen, mod
  <2> QED
    BY <1>3, <1>5, <1>7, <1>8, <1>9, <2>1
<1>11. Loads(l, mod, bin)
  <2> HIDE DEF mod, bin, clen
  <2> QED
    BY <1>1, <1>2, <1>3, <1>10 DEF Loads
<1> QED
  BY <1>3, <1>5, <1>10, <1>11

(* A MODULE line that is loaded. *)
LEMMA ModuleLoads ==
  ASSUME TypeOK, Roomy, ListInv, ~ refused', NEW l \in Line, ModuleLine(l), pc' # "ret"
  PROVE  \E a, b \in Int : Loads(l, a, b)
<1> DEFINE path == l.path
           size == zip.files[path].size
           clen == module_clen(path)
           offs == mod_offset(path)
           bin  == claim(avail, clen, claims)
           mod  == Add(avail, offs)
<1>1. /\ path \in Path \cap DOMAIN zip.files /\ pc = "parse" /\ c = Config
      /\ ~ IsEmpty(kicklist) /\ l.kw = "MODULE"
  <2>1. "MODULE" # "EXEC"
    OBVIOUS
  <2> QED
    BY <2>1, LinePath DEF ModuleLine, CannotLoad, ReadLine, WantedLine
<1>2. /\ bin \notin {NULL, PROM_ERROR}
      /\ kicklist' = alist_add_tail(kicklist, mod, Module(2, path, bin))
      /\ avail' = Add(avail, clen)
      /\ live' = live \cup {Use("image", NewLine, bin, size),
                            Use("node", NewLine, mod, node_len(path))}
  BY DEF ModuleLine, LoadModule, Fail
<1>3. bin = avail
  BY <1>2, ClaimResult
<1>4. KICKLIST_ADDR + sizeof_list <= avail /\ avail <= brd.memsize
  BY <1>1 DEF ListInv
<1>5. size \in Nat /\ node_len(path) \in Nat /\ node_len(path) > 0
      /\ brd.memsize \in Nat /\ avail \in Nat
  <2>1. size \in Nat /\ brd.memsize \in Nat /\ avail \in Int
    BY <1>1 DEF TypeOK, IsZip, BrdType
  <2>2. node_len(path) \in Nat /\ node_len(path) > 0
    BY <1>1, NodeLenType
  <2> QED
    BY <1>4, <2>1, <2>2, KickLoadAssumption DEF sizeof_list
<1>6. brd.memsize + size + node_len(path) + 64 < Word
  BY <1>1 DEF Roomy, NoWrap
<1>7. /\ offs \in Nat /\ offs % 4 = 0 /\ clen \in Nat /\ clen % 4 = 0
      /\ offs < clen /\ avail' = avail + clen /\ mod = avail + offs
  <2>1. offs \in Nat /\ offs < size + 4 /\ offs % 4 = 0
    BY <1>5, <1>6, RoundUp4, RoundMod, WordAssumption DEF mod_offset
  <2>2. Add(offs, node_len(path)) = offs + node_len(path)
    BY <1>5, <1>6, <2>1, AddSmall, WordAssumption
  <2>3. clen = ROUND_UP(offs + node_len(path), 32)
    BY <2>2 DEF module_clen
  <2>4. offs + node_len(path) + 32 < Word /\ offs + node_len(path) \in Nat
    BY <1>5, <1>6, <2>1, WordAssumption
  <2>5. /\ clen \in Nat /\ offs + node_len(path) <= clen
        /\ clen < offs + node_len(path) + 32
    BY <2>3, <2>4, RoundUp32
  <2>6. clen % 4 = 0
    BY <2>3, <2>4, RoundMod
  <2>7. avail + clen < Word /\ avail + offs < Word /\ offs < clen
    BY <1>4, <1>5, <1>6, <2>1, <2>5, WordAssumption
  <2>8. mod = avail + offs /\ avail' = avail + clen
    BY <1>2, <1>5, <2>1, <2>5, <2>7, AddSmall
  <2> QED
    BY <2>1, <2>5, <2>6, <2>7, <2>8
<1>10. /\ avail <= mod /\ mod < avail' /\ mod \in Int
       /\ (mod - avail) % 4 = 0 /\ (avail' - avail) % 4 = 0
  <2> HIDE DEF clen, mod, offs
  <2>1. (avail + clen) - avail = clen /\ (avail + offs) - avail = offs
    BY <1>5, <1>7
  <2> QED
    BY <1>5, <1>7, <2>1
<1>11. Loads(l, mod, bin)
  <2> HIDE DEF mod, bin, clen
  <2> QED
    BY <1>1, <1>2, <1>10 DEF Loads
<1> QED
  BY <1>3, <1>5, <1>10, <1>11
-----------------------------------------------------------------------------
(* A list of modules that nothing is added to goes on following its lines. *)
LEMMA FollowsKept ==
  ASSUME TypeOK, NEW n \in Nat, NEW f, NEW g, Follows(n, f, g),
         UNCHANGED <<brd, kicklist, live>>,
         NEW t, text' = t, ConfigLines(t) = ConfigLines(text),
         Len(t) \in Nat, Len(text) <= Len(t), \A i \in 1 .. Len(text) : t[i] = text[i]
  PROVE  Follows(n, f, g)'
<1>1. g \in [1 .. n -> 1 .. Len(text)] /\ Len(text) \in Nat
  BY DEF Follows, TypeOK
<1>2. g \in [1 .. n -> 1 .. Len(text')]
  BY <1>1
<1>3. ASSUME NEW k \in 1 .. n PROVE LoadedAs(g[k], k, f[k])'
  <2>1. LoadedAs(g[k], k, f[k]) /\ g[k] \in 1 .. Len(text)
    BY <1>1 DEF Follows
  <2>2. text'[g[k]] = text[g[k]]
    BY <2>1
  <2> QED
    BY <2>1, <2>2 DEF LoadedAs
<1>4. ConfigLines(text') = {g[k] : k \in 1 .. n}
  BY DEF Follows
<1>5. \A j, k \in 1 .. n : j < k => g[j] < g[k]
  BY DEF Follows
<1> QED
  BY <1>2, <1>3, <1>4, <1>5 DEF Follows

(* A module loaded from the line just read is the next. *)
LEMMA FollowsGrows ==
  ASSUME TypeOK, UNCHANGED <<brd, zip>>, NEW n, NEW f, NEW g,
         Chain(kicklist, n, f), Follows(n, f, g), IsEmpty(kicklist) <=> n = 0,
         NEW l \in Line, l.path \in Path \cap DOMAIN zip.files,
         l.kw \in {"EXEC", "MODULE"}, text' = Append(text, l),
         NEW a \in Int, NEW b \in Int, Loads(l, a, b),
         a \notin DOMAIN kicklist.node, a # HEAD(kicklist), a # TAIL(kicklist),
         NEW e \in Nat, e = NewLine, ConfigLines(text') = ConfigLines(text) \cup {e}
  PROVE  LET h == Longer(n, f, a)
             i == Longer(n, g, e)
         IN  /\ Chain(kicklist, n + 1, h)'
             /\ Follows(n + 1, h, i)'
<1> DEFINE h == Longer(n, f, a)
           i == Longer(n, g, e)
           id == IF IsEmpty(kicklist) THEN 1 ELSE 2
           m == Module(id, l.path, b)
           w == alist_add_tail(kicklist, a, m)
<1>1. n \in Nat /\ Len(text) \in Nat /\ IsList(kicklist) /\ g \in [1 .. n -> 1 .. Len(text)]
  BY DEF Chain, TypeOK, Follows
<1>2. m \in NodeType
  BY ModuleType DEF TypeOK
<1>3. kicklist' = w
  BY DEF Loads
<1>4. /\ Chain(w, n + 1, h)
      /\ SamePayload(w.node[a], m)
      /\ \A d \in DOMAIN kicklist.node : SamePayload(w.node[d], kicklist.node[d])
  <2> HIDE DEF m
  <2> QED
    BY <1>1, <1>2, ChainAppend
<1>5. Chain(kicklist, n + 1, h)'
  BY <1>3, <1>4
<1>6. /\ e = Len(text) + 1 /\ Len(text') = e /\ text'[e] = l
      /\ \A j \in 1 .. Len(text) : text'[j] = text[j]
  BY <1>1, TextGrows DEF NewLine, TypeOK
<1>7. i \in [1 .. n + 1 -> 1 .. Len(text')] /\ i[n + 1] = e /\ \A k \in 1 .. n : i[k] = g[k]
  BY <1>1, <1>6 DEF Longer
<1>8. h[n + 1] = a /\ \A k \in 1 .. n : h[k] = f[k]
  BY <1>1 DEF Longer
<1>9. ASSUME NEW j \in 1 .. n + 1, NEW k \in 1 .. n + 1, j < k
      PROVE  i[j] < i[k]
  <2>1. j \in 1 .. n /\ i[j] = g[j] /\ g[j] \in 1 .. Len(text)
    BY <1>1, <1>7, <1>9
  <2>2. CASE k = n + 1
    BY <2>1, <2>2, <1>1, <1>6, <1>7
  <2>3. CASE k # n + 1
    <3>1. k \in 1 .. n /\ i[k] = g[k]
      BY <2>3, <1>1, <1>7
    <3> QED
      BY <2>1, <3>1, <1>9 DEF Follows
  <2> QED
    BY <2>2, <2>3
<1>10. ConfigLines(text') = {i[k] : k \in 1 .. n + 1}
  <2>1. ConfigLines(text') = {g[k] : k \in 1 .. n} \cup {e}
    BY DEF Follows
  <2>2. \A k \in 1 .. n + 1 : k \in 1 .. n \/ k = n + 1
    BY <1>1
  <2>3. n + 1 \in 1 .. n + 1 /\ \A k \in 1 .. n : k \in 1 .. n + 1
    BY <1>1
  <2>4. i[n + 1] = e /\ \A k \in 1 .. n : i[k] = g[k]
    BY <1>7
  <2> HIDE DEF i
  <2>5. {i[k] : k \in 1 .. n + 1} = {g[k] : k \in 1 .. n} \cup {e}
    BY <2>2, <2>3, <2>4
  <2> QED
    BY <2>1, <2>5
<1>11. ASSUME NEW k \in 1 .. n PROVE LoadedAs(i[k], k, h[k])'
  <2>1. LoadedAs(g[k], k, f[k]) /\ g[k] \in 1 .. Len(text) /\ f[k] \in DOMAIN kicklist.node
    BY <1>1 DEF Follows, Chain
  <2>2. kicklist.node[f[k]] \in NodeType
    BY <2>1, <1>1 DEF IsList
  <2>3. /\ w.node[f[k]].name = kicklist.node[f[k]].name
        /\ w.node[f[k]].id = kicklist.node[f[k]].id
        /\ w.node[f[k]].address = kicklist.node[f[k]].address
        /\ w.node[f[k]].size = kicklist.node[f[k]].size
    <3> HIDE DEF w
    <3> QED
      BY <1>4, <2>1 DEF SamePayload
  <2>4. text'[g[k]] = text[g[k]] /\ live \subseteq live' /\ brd' = brd
    BY <2>1, <1>6 DEF Loads
  <2>5. i[k] = g[k] /\ h[k] = f[k]
    BY <1>7, <1>8
  <2> HIDE DEF w, i, h
  <2>6. LoadedAs(g[k], k, f[k])'
    BY <1>3, <2>1, <2>3, <2>4 DEF LoadedAs
  <2> QED
    BY <2>5, <2>6
<1>12. LoadedAs(i[n + 1], n + 1, h[n + 1])'
  <2>1. /\ w.node[a].name = l.path /\ w.node[a].id = id
        /\ w.node[a].address = b /\ w.node[a].size = zip.files[l.path].size
    <3> HIDE DEF id
    <3> QED
      BY <1>4 DEF Module, SamePayload
  <2>2. n + 1 = 1 <=> n = 0
    BY <1>1
  <2>3. l = [kw |-> IF n + 1 = 1 THEN "EXEC" ELSE "MODULE", path |-> l.path]
    <3>1. l.kw = IF n + 1 = 1 THEN "EXEC" ELSE "MODULE"
      BY <2>2 DEF Loads
    <3>2. l = [kw |-> l.kw, path |-> l.path]
      BY DEF Line
    <3> QED
      BY <3>1, <3>2
  <2>4. id = (IF n + 1 = 1 THEN 1 ELSE 2) /\ (n + 1 = 1 => b = brd.exec_addr)
    BY <2>2 DEF Loads
  <2>5. /\ Use("image", e, b, zip.files[l.path].size) \in live'
        /\ Use("node", e, a, node_len(l.path)) \in live'
    BY DEF Loads
  <2> HIDE DEF w, i, h, id
  <2>6. LoadedAs(e, n + 1, a)'
    BY <1>3, <1>6, <2>1, <2>3, <2>4, <2>5 DEF LoadedAs
  <2> QED
    BY <1>7, <1>8, <2>6
<1>13. \A k \in 1 .. n + 1 : LoadedAs(i[k], k, h[k])'
  <2>1. \A k \in 1 .. n + 1 : k \in 1 .. n \/ k = n + 1
    BY <1>1
  <2> QED
    BY <1>11, <1>12, <2>1
<1> HIDE DEF h, i
<1>14. Follows(n + 1, h, i)'
  BY <1>7, <1>9, <1>10, <1>13 DEF Follows
<1> QED
  BY <1>5, <1>14 DEF h, i
-----------------------------------------------------------------------------
(* The invariant about the order holds when boot_aos_zipkick() is called. *)
LEMMA OrderInit == Init => OrderInv
<1> SUFFICES ASSUME Init PROVE ReadInv /\ ChainInv /\ FollowInv
  BY DEF OrderInv
<1>1. LabelsUpTo(<< >>, 0) = 0 /\ ConfigLines(<< >>) = {}
  <2>1. {j \in 1 .. 0 : << >>[j].kw = "LABEL"} = {}
    OBVIOUS
  <2>2. LabelsUpTo(<< >>, 0) = Cardinality({})
    BY <2>1 DEF LabelsUpTo
  <2>3. Cardinality({}) = 0
    BY FS_EmptySet
  <2> QED
    BY <2>2, <2>3 DEF ConfigLines
<1>2. c = 0 /\ c # Config /\ text = << >> /\ Len(text) = 0 /\ ret = NULL /\ kicklist = NoList
  BY KickLoadAssumption DEF Init
<1> QED
  BY <1>1, <1>2 DEF ReadInv, ChainInv, FollowInv, Loading

(* A step that gives up leaves the list as it is. *)
LEMMA FailOrder ==
  ASSUME ChainInv, pc' = "ret", ret' = NULL, UNCHANGED kicklist
  PROVE  ReadInv' /\ ChainInv' /\ FollowInv'
BY DEF ReadInv, ChainInv, FollowInv, Loading, Aligned

(* A step that returns, after the loop. *)
LEMMA FinishOrder ==
  ASSUME TypeOK, ListInv, ReadInv, ChainInv, FollowInv, pc = "parse", Finish,
         UNCHANGED <<brd, kicklist, live>>,
         NEW t, text' = t, ConfigLines(t) = ConfigLines(text),
         Len(t) \in Nat, Len(text) <= Len(t), \A i \in 1 .. Len(text) : t[i] = text[i]
  PROVE  ReadInv' /\ ChainInv' /\ FollowInv'
<1>1. CASE ret' = NULL
  <2>1. pc' = "ret"
    BY DEF Finish, Fail
  <2> QED
    BY <1>1, <2>1, FailOrder
<1>2. CASE ret' # NULL
  <2>1. /\ pc' = "ret" /\ kicklist.at # NULL /\ ~ IsEmpty(kicklist)
    BY <1>2 DEF Finish, Fail
  <2>2. Loading
    <3>1. c \in Nat /\ c <= Config
      BY DEF TypeOK, ListInv
    <3>2. ~ c < Config
      BY <2>1 DEF ReadInv, NoList, NULL
    <3> QED
      BY <3>1, <3>2, KickLoadAssumption DEF Loading
  <2>3. PICK n, f, g : Chain(kicklist, n, f) /\ Follows(n, f, g)
    BY <2>2 DEF FollowInv
  <2>4. n \in Nat
    BY <2>3 DEF Chain
  <2>5. Follows(n, f, g)'
    BY <2>3, <2>4, FollowsKept
  <2>6. Chain(kicklist', n, f)
    BY <2>3
  <2>7. DOMAIN kicklist.node # {}
    BY <2>1, <2>2, EmptyList DEF Loading, ListInv, TypeOK
  <2>8. FollowInv'
    BY <1>2, <2>1, <2>5, <2>6, <2>7 DEF FollowInv
  <2>9. ReadInv' /\ ChainInv'
    BY <2>1 DEF ReadInv, ChainInv, Loading, Aligned
  <2> QED
    BY <2>8, <2>9
<1> QED
  BY <1>1, <1>2

(* Sums of multiples of four: where a struct lies behind the header. *)
LEMMA Mod4 ==
  ASSUME NEW x \in Int, NEW y \in Int, NEW z \in Int, (x - y) % 4 = 0, (y - z) % 4 = 0
  PROVE  (x - z) % 4 = 0
OBVIOUS

(***************************************************************************)
(* What a line that is loaded finds: a list that follows the text, whose   *)
(* nodes all lie below the new one.                                        *)
(***************************************************************************)
Found(l, a, n, f, g) ==
    /\ Chain(kicklist, n, f) /\ Follows(n, f, g)
    /\ IsEmpty(kicklist) <=> n = 0
    /\ a \notin DOMAIN kicklist.node /\ a # HEAD(kicklist) /\ a # TAIL(kicklist)
    /\ l.path \in Path \cap DOMAIN zip.files /\ l.kw \in {"EXEC", "MODULE"}

(* A line that is loaded finds such a list (WantedLine, load_module_from_zip). *)
LEMMA LoadFinds ==
  ASSUME TypeOK, Roomy, ListInv, ~ refused', ChainInv, FollowInv,
         NEW l \in Line, ExecLine(l) \/ ModuleLine(l), pc' # "ret"
  PROVE  /\ pc = "parse" /\ c = Config
         /\ UNCHANGED <<brd, zip, pc, ret, c>> /\ text' = Append(text, l)
         /\ \E a, b \in Int : \E n, f, g : Loads(l, a, b) /\ Found(l, a, n, f, g)
<1>1. PICK a \in Int, b \in Int : Loads(l, a, b)
  BY ExecLoads, ModuleLoads
<1>2. /\ pc = "parse" /\ c = Config /\ UNCHANGED <<brd, zip, pc, ret, c>>
      /\ text' = Append(text, l) /\ l.kw \in {"EXEC", "MODULE"}
      /\ l.path \in Path \cap DOMAIN zip.files
  <2>1. l.path \in Path
    BY LinePath DEF ExecLine, ModuleLine
  <2> QED
    BY <2>1 DEF ExecLine, ModuleLine, ReadLine, WantedLine, CannotLoad, LoadExec, LoadModule, Fail
<1>3. /\ Shape(kicklist) /\ KICKLIST_ADDR + sizeof_list <= avail
      /\ IsList(kicklist) /\ avail \in Int
  BY <1>2 DEF ListInv, TypeOK
<1>4. /\ Loading /\ kicklist.at = KICKLIST_ADDR /\ KICKLIST_ADDR \in Int
      /\ \A d \in DOMAIN kicklist.node : d \in Int /\ d < avail
  BY <1>2, <1>3, KickLoadAssumption DEF Loading, Shape, ChainInv, IsList
<1>5. a \notin DOMAIN kicklist.node /\ a # HEAD(kicklist) /\ a # TAIL(kicklist)
  <2>1. avail <= a
    BY <1>1 DEF Loads
  <2> QED
    BY <1>3, <1>4, <2>1 DEF HEAD, TAIL, sizeof_list
<1>6. PICK n, f, g : Chain(kicklist, n, f) /\ Follows(n, f, g)
  BY <1>4 DEF FollowInv
<1>7. IsEmpty(kicklist) <=> n = 0
  <2>1. n \in Nat /\ DOMAIN kicklist.node = {f[k] : k \in 1 .. n}
    BY <1>6 DEF Chain
  <2>2. DOMAIN kicklist.node = {} <=> n = 0
    BY <2>1
  <2> QED
    BY <1>3, <2>2, EmptyList
<1>8. Found(l, a, n, f, g)
  BY <1>2, <1>5, <1>6, <1>7 DEF Found
<1> QED
  BY <1>1, <1>2, <1>8

(* A line of the configuration that is loaded keeps the order. *)
LEMMA LoadOrder ==
  ASSUME TypeOK, TypeOK', Roomy, ListInv, ~ refused', ReadInv, ChainInv, FollowInv,
         NEW l \in Line, ExecLine(l) \/ ModuleLine(l), pc' # "ret"
  PROVE  ReadInv' /\ ChainInv' /\ FollowInv'
<1>1. /\ pc = "parse" /\ c = Config /\ c' = c /\ pc' = pc /\ ret' = ret
      /\ UNCHANGED <<brd, zip>> /\ text' = Append(text, l)
  BY LoadFinds
<1>q. PICK a \in Int, b \in Int : \E n, f, g : Loads(l, a, b) /\ Found(l, a, n, f, g)
  BY LoadFinds
<1>2. PICK n, f, g : Loads(l, a, b) /\ Found(l, a, n, f, g)
  BY <1>q
<1>3. /\ Chain(kicklist, n, f) /\ Follows(n, f, g) /\ (IsEmpty(kicklist) <=> n = 0)
      /\ a \notin DOMAIN kicklist.node /\ a # HEAD(kicklist) /\ a # TAIL(kicklist)
      /\ l.path \in Path \cap DOMAIN zip.files /\ l.kw \in {"EXEC", "MODULE"}
  BY <1>2 DEF Found
<1>4. /\ Loading /\ avail \in Int /\ avail' \in Int
      /\ kicklist.at = KICKLIST_ADDR /\ KICKLIST_ADDR \in Int /\ KICKLIST_ADDR > 0
      /\ \A d \in DOMAIN kicklist.node : d \in Int /\ d < avail
  BY <1>1, KickLoadAssumption DEF Loading, ListInv, Shape, ChainInv, TypeOK, IsList
<1>s. /\ Len(text) + 1 \in Nat /\ c' = LabelsUpTo(text', Len(text'))
      /\ ConfigLines(text') = ConfigLines(text) \cup {Len(text) + 1}
  <2>1. text \in Seq(Line) /\ c = LabelsUpTo(text, Len(text)) /\ c \in Nat
    BY <1>1 DEF TypeOK, ReadInv
  <2>2. LabelsUpTo(text, Len(text)) + 0 = Config /\ Len(text) + 1 \in Nat
    BY <1>1, <2>1, KickLoadAssumption
  <2>3. /\ ConfigLines(text') = ConfigLines(text) \cup {Len(text) + 1}
        /\ LabelsUpTo(text', Len(text')) = Config
    BY <1>1, <1>3, <2>1, <2>2, TextGrows
  <2>4. c' = Config
    BY <1>1
  <2> QED
    BY <2>2, <2>3, <2>4
<1>8. PICK e \in Nat : e = NewLine /\ ConfigLines(text') = ConfigLines(text) \cup {e}
  BY <1>s DEF NewLine
<1>9. Chain(kicklist', n + 1, Longer(n, f, a)) /\ Follows(n + 1, Longer(n, f, a), Longer(n, g, e))'
  BY <1>1, <1>2, <1>3, <1>8, FollowsGrows
<1>10. kicklist'.at = kicklist.at /\ DOMAIN kicklist'.node = DOMAIN kicklist.node \cup {a}
  BY <1>2 DEF Loads, alist_add_tail, Linked
<1>11. /\ avail <= a /\ a < avail'
       /\ (a - avail) % 4 = 0 /\ (avail' - avail) % 4 = 0
  BY <1>2 DEF Loads
<1>12. (avail - kicklist.at) % 4 = 0
  BY <1>4 DEF ChainInv
<1>13. (a - kicklist.at) % 4 = 0 /\ (avail' - kicklist.at) % 4 = 0
  BY <1>4, <1>11, <1>12, Mod4
<1>14. Aligned
  BY <1>4 DEF ChainInv, NoList
<1>15. ChainInv'
  <2>1. Aligned'
    BY <1>10, <1>13, <1>14 DEF Aligned
  <2>2. (avail - kicklist.at)' % 4 = 0
    BY <1>10, <1>13
  <2>3. \A d \in DOMAIN kicklist'.node : d < avail'
    BY <1>4, <1>10, <1>11
  <2>4. \E m, h : Chain(kicklist', m, h)
    BY <1>9
  <2> QED
    BY <2>1, <2>2, <2>3, <2>4 DEF ChainInv
<1>16. FollowInv'
  <2>1. ret' = NULL
    BY <1>1 DEF ReadInv
  <2> QED
    BY <1>9, <2>1 DEF FollowInv
<1>17. ReadInv'
  <2>1. ret' = NULL /\ pc' = "parse" /\ ~ c' < Config
    BY <1>1, KickLoadAssumption DEF ReadInv
  <2> QED
    BY <1>s, <2>1 DEF ReadInv
<1> QED
  BY <1>15, <1>16, <1>17

(* The LABEL of the configuration: an empty list. *)
LEMMA LabelOrder ==
  ASSUME TypeOK, ListInv, ~ refused', ReadInv, ChainInv,
         NEW l \in Line, ConfigLabel(l), pc' # "ret", Roomy
  PROVE  ReadInv' /\ ChainInv' /\ FollowInv'
<1>1. /\ pc = "parse" /\ c + 1 = Config /\ c' = Config /\ ret' = ret /\ pc' = pc
      /\ text' = Append(text, l) /\ l.kw = "LABEL" /\ c \in Nat
      /\ text \in Seq(Line) /\ c < Config
  BY KickLoadAssumption DEF ConfigLabel, ReadLine, Fail, TypeOK
<1>2. avail = KICKLIST_ADDR /\ ret = NULL /\ c = LabelsUpTo(text, Len(text)) /\ ConfigLines(text) = {}
  BY <1>1 DEF ListInv, ReadInv
<1>3. /\ LabelsUpTo(text', Len(text')) = Config
      /\ ConfigLines(text') = {}
  <2>1. LabelsUpTo(text, Len(text)) + 1 = Config
    BY <1>1, <1>2
  <2> QED
    BY <1>1, <1>2, <2>1, TextGrows
<1>4. kicklist' = alist_init(avail) /\ avail' = Add(avail, sizeof_list)
  <2>1. claim(avail, sizeof_list, claims) \notin {NULL, PROM_ERROR}
    BY DEF ConfigLabel, Fail
  <2>2. claim(avail, sizeof_list, claims) = avail
    BY <2>1, ClaimResult
  <2> QED
    BY <2>2, <2>1 DEF ConfigLabel
<1>5. avail' = avail + 12
  BY <1>2, <1>4, AddSmall, KickLoadAssumption DEF Roomy, NoWrap, sizeof_list
<1> DEFINE f == [k \in 1 .. 0 |-> 0]
<1>6. Chain(kicklist', 0, f)
  BY <1>2, <1>4, ChainInit, KickLoadAssumption
<1>7. Follows(0, f, f)'
  BY <1>3 DEF Follows
<1>8. kicklist'.at = avail /\ DOMAIN kicklist'.node = {}
  BY <1>4 DEF alist_init
<1> HIDE DEF f
<1>9. ChainInv'
  <2>1. (avail' - kicklist'.at) % 4 = 0
    BY <1>2, <1>5, <1>8, KickLoadAssumption
  <2>2. Aligned'
    BY <1>8 DEF Aligned
  <2> QED
    BY <1>6, <1>8, <2>1, <2>2 DEF ChainInv
<1>10. FollowInv'
  BY <1>1, <1>2, <1>6, <1>7 DEF FollowInv
<1>11. ReadInv'
  BY <1>1, <1>2, <1>3, KickLoadAssumption DEF ReadInv
<1> QED
  BY <1>9, <1>10, <1>11

(* Every step of boot_aos_zipkick() keeps the order. *)
LEMMA OrderStep ==
  TypeOK /\ TypeOK' /\ KickInv /\ OrderInv /\ [Next]_vars => OrderInv'
<1> SUFFICES ASSUME TypeOK, TypeOK', KickInv, OrderInv, [Next]_vars, Roomy', ~ refused'
             PROVE  ReadInv' /\ ChainInv' /\ FollowInv'
  BY DEF OrderInv
<1>a. UNCHANGED <<brd, zip>> /\ ~ refused
  BY BoardStable, RefusedStays
<1>b. Roomy /\ ListInv /\ ReadInv /\ ChainInv /\ FollowInv
  BY <1>a, RoomyStable DEF KickInv, OrderInv
<1>t. text \in Seq(Line) /\ Len(text) \in Nat /\ c \in Nat
  BY DEF TypeOK
<1>1. CASE NoKicklayout
  BY <1>1, <1>b, FailOrder DEF NoKicklayout, Fail
<1>2. CASE LoadKicklayout
  <2>1. CASE pc' = "ret"
    BY <1>2, <2>1, <1>b, FailOrder DEF LoadKicklayout, Fail
  <2>2. CASE pc' # "ret"
    <3>1. /\ pc = "open" /\ pc' = "parse" /\ c = 0 /\ c < Config
          /\ UNCHANGED <<ret, c, kicklist, text>>
      BY <1>2, <2>2, <1>b, KickLoadAssumption DEF LoadKicklayout, Fail, ListInv
    <3>2. ReadInv'
      BY <1>b, <3>1 DEF ReadInv
    <3> QED
      BY <1>b, <3>1, <3>2, KickLoadAssumption DEF ReadInv, ChainInv, FollowInv, Loading, Aligned
  <2> QED
    BY <2>1, <2>2
<1>3. ASSUME NEW l \in Line, SkipLine(l) PROVE ReadInv' /\ ChainInv' /\ FollowInv'
  <2>1. /\ UNCHANGED <<brd, zip, pc, ret, c, avail, kicklist, live>>
        /\ pc = "parse" /\ text' = Append(text, l) /\ l.kw # "LABEL"
        /\ l.kw = "COMMENT" \/ c # Config
    BY <1>3 DEF SkipLine, ReadLine
  <2>2. c = LabelsUpTo(text, Len(text)) /\ ret = NULL
    BY <1>b, <2>1 DEF ReadInv
  <2>3. LabelsUpTo(text, Len(text)) + 0 = c
    BY <2>2, <1>t
  <2>4. /\ LabelsUpTo(text', Len(text')) = c /\ ConfigLines(text') = ConfigLines(text)
        /\ Len(text') = Len(text) + 1 /\ \A i \in 1 .. Len(text) : text'[i] = text[i]
    <3>1. /\ LabelsUpTo(text', Len(text')) = c
          /\ ConfigLines(text') = ConfigLines(text) \cup {}
      BY <1>t, <2>1, <2>2, <2>3, TextGrows
    <3>2. Len(text') = Len(text) + 1 /\ \A i \in 1 .. Len(text) : text'[i] = text[i]
      BY <1>t, <2>1
    <3> QED
      BY <3>1, <3>2
  <2>5. ReadInv'
    BY <1>b, <2>1, <2>2, <2>4 DEF ReadInv
  <2>6. ChainInv'
    BY <1>b, <2>1 DEF ChainInv, Loading, Aligned
  <2>7. FollowInv'
    <3>1. CASE Loading
      <4>1. PICK n, f, g : Chain(kicklist, n, f) /\ Follows(n, f, g)
        BY <1>b, <3>1 DEF FollowInv
      <4>2. n \in Nat
        BY <4>1 DEF Chain
      <4>3. Len(text') \in Nat /\ Len(text) <= Len(text')
        BY <1>t, <2>4
      <4>4. PICK t : t = text'
        OBVIOUS
      <4>5. Follows(n, f, g)'
        BY <2>1, <2>4, <4>1, <4>2, <4>3, <4>4, FollowsKept
      <4>6. Chain(kicklist', n, f)
        BY <2>1, <4>1
      <4> QED
        BY <2>1, <2>2, <4>5, <4>6 DEF FollowInv
    <3>2. CASE ~ Loading
      BY <2>1, <2>2, <3>2 DEF FollowInv, Loading
    <3> QED
      BY <3>1, <3>2
  <2> QED
    BY <2>5, <2>6, <2>7
<1>4. ASSUME NEW l \in Line, EarlierLabel(l) PROVE ReadInv' /\ ChainInv' /\ FollowInv'
  <2>1. /\ UNCHANGED <<pc, ret, kicklist>> /\ pc = "parse" /\ c' = c + 1
        /\ c < Config /\ c' < Config /\ c' # Config
        /\ text' = Append(text, l) /\ l.kw = "LABEL"
    BY <1>4, <1>t, KickLoadAssumption DEF EarlierLabel, ReadLine
  <2>2. c = LabelsUpTo(text, Len(text)) /\ ret = NULL /\ kicklist = NoList /\ ConfigLines(text) = {}
    BY <1>b, <2>1 DEF ReadInv
  <2>3. LabelsUpTo(text', Len(text')) = c + 1 /\ ConfigLines(text') = {}
    BY <1>t, <2>1, <2>2, TextGrows
  <2> QED
    BY <2>1, <2>2, <2>3 DEF ReadInv, ChainInv, FollowInv, Loading
<1>5. ASSUME NEW l \in Line, ConfigLabel(l) PROVE ReadInv' /\ ChainInv' /\ FollowInv'
  <2>1. CASE pc' = "ret"
    <3>1. ret' = NULL /\ UNCHANGED kicklist
      BY <1>5, <2>1 DEF ConfigLabel, ReadLine, Fail
    <3> QED
      BY <1>b, <2>1, <3>1, FailOrder
  <2>2. CASE pc' # "ret"
    BY <1>5, <1>b, <2>2, LabelOrder
  <2> QED
    BY <2>1, <2>2
<1>6. ASSUME NEW l \in Line, LaterLabel(l) PROVE ReadInv' /\ ChainInv' /\ FollowInv'
  <2>1. /\ UNCHANGED <<brd, kicklist, live>> /\ pc = "parse" /\ Finish
        /\ text' = Append(text, l) /\ l.kw = "LABEL"
    BY <1>6 DEF LaterLabel, ReadLine
  <2>2. /\ ConfigLines(text') = ConfigLines(text)
        /\ Len(text') = Len(text) + 1 /\ \A i \in 1 .. Len(text) : text'[i] = text[i]
    <3>1. ConfigLines(text') = ConfigLines(text) \cup {}
      BY <1>t, <2>1, TextGrows
    <3>2. Len(text') = Len(text) + 1 /\ \A i \in 1 .. Len(text) : text'[i] = text[i]
      BY <1>t, <2>1
    <3> QED
      BY <3>1, <3>2
  <2>3. Len(text') \in Nat /\ Len(text) <= Len(text')
    BY <1>t, <2>2
  <2>4. PICK t : t = text'
    OBVIOUS
  <2> QED
    BY <1>b, <2>1, <2>2, <2>3, <2>4, FinishOrder
<1>7. ASSUME NEW l \in Line, ExecLine(l) \/ ModuleLine(l) PROVE ReadInv' /\ ChainInv' /\ FollowInv'
  <2>1. CASE pc' = "ret"
    <3>1. ret' = NULL /\ UNCHANGED kicklist
      BY <1>7, <2>1 DEF ExecLine, ModuleLine, ReadLine, LoadExec, LoadModule, Fail
    <3> QED
      BY <1>b, <2>1, <3>1, FailOrder
  <2>2. CASE pc' # "ret"
    BY <1>7, <1>b, <2>2, LoadOrder
  <2> QED
    BY <2>1, <2>2
<1>9. ASSUME NEW l \in Line, BadLine(l) PROVE ReadInv' /\ ChainInv' /\ FollowInv'
  BY <1>9, <1>b, FailOrder DEF BadLine, Fail
<1>10. CASE EndOfText
  <2>1. UNCHANGED <<brd, kicklist, live, text>> /\ pc = "parse" /\ Finish
    BY <1>10 DEF EndOfText
  <2>2. PICK t : t = text'
    OBVIOUS
  <2>3. Len(text) <= Len(text)
    BY <1>t
  <2> QED
    BY <1>b, <1>t, <2>1, <2>2, <2>3, FinishOrder
<1>11. CASE UNCHANGED vars
  <2>1. ReadInv' /\ ChainInv'
    BY <1>b, <1>11 DEF vars, ReadInv, ChainInv, Loading, Aligned
  <2>2. Loading' \/ ret' # NULL => \E n, f, g : Chain(kicklist', n, f) /\ Follows(n, f, g)'
    <3>1. \A n, f, g : Follows(n, f, g)' <=> Follows(n, f, g)
      BY <1>11 DEF vars, Follows, LoadedAs
    <3> QED
      BY <1>b, <1>11, <3>1 DEF vars, FollowInv, Loading
  <2> QED
    BY <1>b, <1>11, <2>1, <2>2 DEF vars, FollowInv
<1> QED
  BY <1>1, <1>2, <1>3, <1>4, <1>5, <1>6, <1>7, <1>9, <1>10, <1>11
     DEF Next, Returned

(* The invariant about the order of the list always holds. *)
LEMMA OrderCorrect == Spec => []OrderInv
BY TypeCorrect, KickCorrect, OrderInit, OrderStep, PTL DEF Spec

(***************************************************************************)
(* On a machine with room the kicklist can be walked both ways at any      *)
(* time, whatever has been loaded, and its structs lie on word boundaries  *)
(* (alist_add_tail, add_module).                                           *)
(***************************************************************************)
THEOREM Walkable == Spec => [](Roomy => KicklistWellFormed)
<1>1. TypeOK /\ OrderInv => (Roomy => KicklistWellFormed)
  <2> SUFFICES ASSUME OrderInv, Roomy, kicklist.at # NULL, ~ refused
               PROVE  /\ WellFormed(kicklist)
                      /\ \A a \in DOMAIN kicklist.node : (a - kicklist.at) % 4 = 0
    BY DEF KicklistWellFormed
  <2>1. Aligned /\ \E n, f : Chain(kicklist, n, f)
    BY DEF OrderInv, ChainInv, NoList, NULL
  <2>2. WellFormed(kicklist)
    BY <2>1, ChainWellFormed
  <2> QED
    BY <2>1, <2>2 DEF Aligned
<1> QED
  BY <1>1, TypeCorrect, OrderCorrect, PTL

(* An increasing sequence has as many elements as places. *)
LEMMA IncreasingCount ==
  ASSUME NEW n \in Nat, NEW g \in [1 .. n -> Int],
         \A j, k \in 1 .. n : j < k => g[j] < g[k], NEW k \in 0 .. n
  PROVE  Cardinality({g[m] : m \in 1 .. k}) = k
<1> DEFINE S == {g[m] : m \in 1 .. k}
           h == [m \in 1 .. k |-> g[m]]
<1>1. k \in Nat /\ \A m \in 1 .. k : m \in 1 .. n
  OBVIOUS
<1>2. ASSUME NEW i \in 1 .. k, NEW j \in 1 .. k, g[i] = g[j] PROVE i = j
  <2>1. i \in 1 .. n /\ j \in 1 .. n /\ g[i] \in Int /\ g[j] \in Int
    BY <1>1
  <2> QED
    BY <1>2, <2>1
<1>3. h \in Bijection(1 .. k, S)
  BY <1>1, <1>2 DEF Bijection, Injection, Surjection, IsInjective
<1>4. ExistsBijection(1 .. k, S)
  BY <1>3 DEF ExistsBijection
<1> HIDE DEF S
<1>5. Cardinality(S) = k
  BY <1>1, <1>4, FS_CountingElements
<1> QED
  BY <1>5 DEF S

(* A list that follows the text has its lines as ListMatchesText counts them. *)
LEMMA FollowsMatches ==
  ASSUME TypeOK, NEW n, NEW f, NEW g, Chain(kicklist, n, f), Follows(n, f, g)
  PROVE  /\ Size(kicklist) = Cardinality(ConfigLines(text))
         /\ \A i \in ConfigLines(text) :
               LET k == Cardinality({j \in ConfigLines(text) : j <= i})
               IN  LoadedAs(i, k, Forward(kicklist)[k])
<1>0. n \in Nat
  BY DEF Chain
<1>1. n \in Nat /\ Size(kicklist) = n /\ Forward(kicklist) = f
  BY <1>0, ChainSize, ChainForward
<1>2. /\ ConfigLines(text) = {g[k] : k \in 1 .. n} /\ g \in [1 .. n -> Int]
      /\ \A j, k \in 1 .. n : j < k => g[j] < g[k]
  BY DEF Follows
<1>3. n \in 0 .. n
  BY <1>1
<1>4. Cardinality(ConfigLines(text)) = n
  BY <1>1, <1>2, <1>3, IncreasingCount
<1>5. ASSUME NEW k \in 1 .. n
      PROVE  /\ Cardinality({j \in ConfigLines(text) : j <= g[k]}) = k
             /\ LoadedAs(g[k], k, f[k])
  <2>1. \A m \in 1 .. n : g[m] <= g[k] <=> m \in 1 .. k
    <3> TAKE m \in 1 .. n
    <3>1. g[m] \in Int /\ g[k] \in Int /\ k \in Int /\ m \in Int
      BY <1>1, <1>2
    <3>2. (m < k => g[m] < g[k]) /\ (k < m => g[k] < g[m]) /\ (m = k => g[m] = g[k])
      BY <1>2
    <3> QED
      BY <3>1, <3>2
  <2>2. \A m \in 1 .. k : m \in 1 .. n
    BY <1>1
  <2>3. {j \in ConfigLines(text) : j <= g[k]} = {g[m] : m \in 1 .. k}
    BY <1>2, <2>1, <2>2
  <2>4. k \in 0 .. n
    BY <1>1
  <2> QED
    BY <1>1, <1>2, <2>3, <2>4, IncreasingCount DEF Follows
<1>6. ASSUME NEW i \in ConfigLines(text)
      PROVE  LET k == Cardinality({j \in ConfigLines(text) : j <= i})
             IN  LoadedAs(i, k, Forward(kicklist)[k])
  <2>1. PICK k \in 1 .. n : i = g[k]
    BY <1>2
  <2> QED
    BY <1>1, <1>5, <2>1
<1> QED
  BY <1>1, <1>4, <1>6

(***************************************************************************)
(* On a machine with room, what boot_aos_zipkick() returns is a list of    *)
(* exactly the lines of the configuration in their order, however many     *)
(* there are, each with the struct and the image written for it.           *)
(***************************************************************************)
THEOREM MatchesText == Spec => [](Roomy => ListMatchesText)
<1>1. TypeOK /\ OrderInv => (Roomy => ListMatchesText)
  <2> SUFFICES ASSUME TypeOK, OrderInv, Roomy, ret # NULL, ~ refused
               PROVE  /\ Size(kicklist) = Cardinality(ConfigLines(text)) /\ Size(kicklist) > 0
                      /\ \A i \in ConfigLines(text) :
                            LET k == Cardinality({j \in ConfigLines(text) : j <= i})
                            IN  LoadedAs(i, k, Forward(kicklist)[k])
    BY DEF ListMatchesText
  <2>1. DOMAIN kicklist.node # {} /\ \E n, f, g : Chain(kicklist, n, f) /\ Follows(n, f, g)
    BY DEF OrderInv, FollowInv
  <2>2. PICK n, f, g : Chain(kicklist, n, f) /\ Follows(n, f, g)
    BY <2>1
  <2>3. Size(kicklist) > 0
    <3>1. n \in Nat /\ DOMAIN kicklist.node = {f[k] : k \in 1 .. n}
      BY <2>2 DEF Chain
    <3>2. Size(kicklist) = n
      BY <2>2, ChainSize
    <3> QED
      BY <2>1, <3>1, <3>2
  <2> QED
    BY <2>2, <2>3, FollowsMatches
<1> QED
  BY <1>1, TypeCorrect, OrderCorrect, PTL
-----------------------------------------------------------------------------
(* What the abstract specification is told of a module. *)
Payload(m) == [id |-> m.id, name |-> m.name, address |-> m.address, size |-> m.size]

(* The modules of a list, as the abstract specification sees them. *)
LEMMA ModulesOfChain ==
  ASSUME NEW l, NEW n, NEW f, Chain(l, n, f)
  PROVE  /\ n \in Nat /\ Len(ModulesOf(l)) = n
         /\ ModulesOf(l) = << >> <=> n = 0
         /\ \A k \in 1 .. n : ModulesOf(l)[k] = Payload(l.node[f[k]])
<1>1. Size(l) = n /\ Forward(l) = f
  BY ChainSize, ChainForward
<1>2. n \in Nat /\ \A k \in 1 .. n : f[k] \in DOMAIN l.node
  BY DEF Chain
<1>3. ModulesOf(l) = [k \in 1 .. n |-> Payload(l.node[f[k]])]
  BY <1>1, <1>2 DEF ModulesOf, Payload
<1> DEFINE S == {Payload(l.node[f[k]]) : k \in 1 .. n}
<1>4. ModulesOf(l) \in [1 .. n -> S]
  BY <1>3
<1>5. ModulesOf(l) \in Seq(S) /\ Len(ModulesOf(l)) = n
  <2> HIDE DEF S
  <2> QED
    BY <1>2, <1>4
<1>6. ModulesOf(l) = << >> <=> n = 0
  <2> HIDE DEF S
  <2> QED
    BY <1>2, <1>5
<1>7. \A k \in 1 .. n : ModulesOf(l)[k] = Payload(l.node[f[k]])
  BY <1>3
<1> QED
  BY <1>2, <1>5, <1>6, <1>7

(* There are none before the LABEL of the configuration. *)
LEMMA ModulesOfNone == ModulesOf(NoList) = << >>
<1>1. Size(NoList) = 0
  BY FS_EmptySet DEF NoList, Size
<1> QED
  BY <1>1 DEF ModulesOf

(* What is needed of the state before and after a step. *)
LEMMA LoadRefines ==
  ASSUME TypeOK, TypeOK', Roomy, ListInv, ~ refused', NothingOverwritten',
         ReadInv, ChainInv, FollowInv,
         NEW l \in Line, ExecLine(l) \/ ModuleLine(l), pc' # "ret"
  PROVE  Promise!Load
<1>1. pc = "parse" /\ pc' = pc
  BY LoadFinds
<1>q. PICK a \in Int, b \in Int : \E n, f, g : Loads(l, a, b) /\ Found(l, a, n, f, g)
  BY LoadFinds
<1>2. PICK n, f, g : Loads(l, a, b) /\ Found(l, a, n, f, g)
  BY <1>q
<1>3. /\ Chain(kicklist, n, f) /\ Follows(n, f, g) /\ (IsEmpty(kicklist) <=> n = 0)
      /\ a \notin DOMAIN kicklist.node /\ a # HEAD(kicklist) /\ a # TAIL(kicklist)
      /\ l.path \in Path \cap DOMAIN zip.files
  BY <1>2 DEF Found
<1>7. n \in Nat /\ f \in [1 .. n -> Int] /\ DOMAIN kicklist.node = {f[k] : k \in 1 .. n}
  BY <1>3 DEF Chain
<1> DEFINE id == IF IsEmpty(kicklist) THEN 1 ELSE 2
           m == Module(id, l.path, b)
           w == alist_add_tail(kicklist, a, m)
           h == Longer(n, f, a)
<1>9. m \in NodeType
  BY <1>3, ModuleType DEF TypeOK
<1>10. /\ Chain(w, n + 1, h) /\ SamePayload(w.node[a], m)
       /\ \A d \in DOMAIN kicklist.node : SamePayload(w.node[d], kicklist.node[d])
  <2> HIDE DEF m
  <2> QED
    BY <1>3, <1>9, ChainAppend DEF TypeOK
<1>11. kicklist' = w
  BY <1>2 DEF Loads
<1> HIDE DEF w, m
<1>12. h[n + 1] = a /\ \A k \in 1 .. n : h[k] = f[k]
  BY <1>7 DEF Longer
<1> HIDE DEF h
<1>13. /\ Len(Modules) = n /\ (Modules = << >> <=> n = 0)
       /\ \A k \in 1 .. n : Modules[k] = Payload(kicklist.node[f[k]])
  BY <1>3, ModulesOfChain DEF Modules
<1>14. /\ Len(Modules') = n + 1
       /\ \A k \in 1 .. n + 1 : Modules'[k] = Payload(w.node[h[k]])
  BY <1>10, <1>11, ModulesOfChain DEF Modules
<1>15. ASSUME NEW k \in 1 .. n PROVE Modules'[k] = Modules[k]
  <2>1. k \in 1 .. n + 1 /\ f[k] \in DOMAIN kicklist.node
    BY <1>7
  <2> QED
    BY <2>1, <1>10, <1>12, <1>13, <1>14 DEF Payload, SamePayload
<1>16. Modules'[n + 1] = Payload(m)
  <2>1. n + 1 \in 1 .. n + 1
    BY <1>7
  <2> QED
    BY <2>1, <1>10, <1>12, <1>14 DEF Payload, SamePayload
<1>17. ASSUME NEW k \in 1 .. n
       PROVE  ~ Promise!Overlap(Promise!Image(Modules[k]), Promise!Image(Payload(m)))
  <2> DEFINE o == kicklist.node[f[k]]
             size == zip.files[l.path].size
             u == Use("image", g[k], o.address, o.size)
             v == Use("image", NewLine, b, size)
  <2>1. u \in live /\ g[k] \in 1 .. Len(text)
    BY <1>3 DEF Follows, LoadedAs
  <2>2. live \subseteq live' /\ v \in live'
    BY <1>2 DEF Loads
  <2>3. u # v
    <3>1. g[k] # NewLine
      BY <2>1 DEF NewLine, TypeOK
    <3> QED
      BY <3>1 DEF Use
  <2>4. ~ Overlap(u, v)
    BY <2>1, <2>2, <2>3 DEF NothingOverwritten
  <2>5. m.address = b /\ m.size = size
    BY DEF m, Module
  <2> QED
    BY <1>13, <2>4, <2>5
       DEF Promise!Overlap, Promise!Image, Promise!Region, Promise!End, Overlap, End, Use, Payload
<1>18. Payload(m).id = IF n = 0 THEN 1 ELSE 2
  BY <1>3 DEF m, Module, Payload
<1>19. Status = "loading" /\ Status' = "loading"
  BY <1>1 DEF Status
<1> QED
  BY <1>7, <1>13, <1>14, <1>15, <1>16, <1>17, <1>18, <1>19 DEF Promise!Load

(* A step that adds no module and does not return is not seen. *)
LEMMA Unseen ==
  ASSUME pc # "ret", pc' # "ret", Modules' = Modules
  PROVE  UNCHANGED <<Status, Modules>>
BY DEF Status

(* A step that returns hands the list over, if it is not empty, or fails. *)
LEMMA ReturnRefines ==
  ASSUME pc # "ret", pc' = "ret", UNCHANGED kicklist,
         ret' = NULL \/ Modules # << >>
  PROVE  Promise!Boot \/ Promise!Fail
<1>1. Modules' = Modules /\ Status = "loading"
  BY DEF Modules, Status
<1>2. CASE ret' = NULL
  BY <1>1, <1>2 DEF Promise!Fail, Status
<1>3. CASE ret' # NULL
  BY <1>1, <1>3 DEF Promise!Boot, Status
<1> QED
  BY <1>2, <1>3

(* What Finish returns has a module. *)
LEMMA FinishRefines ==
  ASSUME TypeOK, ListInv, ReadInv, FollowInv, pc = "parse", Finish, UNCHANGED kicklist
  PROVE  Promise!Boot \/ Promise!Fail
<1>1. pc' = "ret"
  BY DEF Finish, Fail
<1>2. CASE ret' = NULL
  BY <1>1, <1>2, ReturnRefines
<1>3. CASE ret' # NULL
  <2>1. kicklist.at # NULL /\ ~ IsEmpty(kicklist)
    BY <1>3 DEF Finish, Fail
  <2>2. Loading
    <3>1. c \in Nat /\ c <= Config
      BY DEF TypeOK, ListInv
    <3>2. ~ c < Config
      BY <2>1 DEF ReadInv, NoList, NULL
    <3> QED
      BY <3>1, <3>2, KickLoadAssumption DEF Loading
  <2>3. PICK n, f, g : Chain(kicklist, n, f) /\ Follows(n, f, g)
    BY <2>2 DEF FollowInv
  <2>4. n \in Nat /\ DOMAIN kicklist.node = {f[k] : k \in 1 .. n}
    BY <2>3 DEF Chain
  <2>5. DOMAIN kicklist.node # {}
    BY <2>1, <2>2, EmptyList DEF Loading, ListInv, TypeOK
  <2>6. Modules # << >>
    BY <2>3, <2>4, <2>5, ModulesOfChain DEF Modules
  <2> QED
    BY <1>1, <2>6, ReturnRefines
<1> QED
  BY <1>2, <1>3

(* Every step of the loader is a step of KickList, or none. *)
LEMMA StepRefines ==
  ASSUME TypeOK, TypeOK', KickInv, KickInv', OrderInv, [Next]_vars,
         Roomy, Roomy', ~ refused, ~ refused'
  PROVE  [Promise!Next]_<<Status, Modules>>
<1>b. ListInv /\ ReadInv /\ ChainInv /\ FollowInv /\ NothingOverwritten'
  BY DEF KickInv, OrderInv
<1> DEFINE Goal == [Promise!Next]_<<Status, Modules>>
<1>f. ASSUME pc # "ret", pc' = "ret", ret' = NULL, UNCHANGED kicklist PROVE Goal
  BY <1>f, ReturnRefines DEF Promise!Next
<1>u. ASSUME pc # "ret", pc' # "ret", UNCHANGED kicklist PROVE Goal
  <2>1. Modules' = Modules
    BY <1>u DEF Modules
  <2> QED
    BY <1>u, <2>1, Unseen
<1>1. CASE NoKicklayout
  BY <1>1, <1>f DEF NoKicklayout, Fail
<1>2. CASE LoadKicklayout
  <2>1. pc # "ret" /\ UNCHANGED kicklist /\ (pc' = "ret" => ret' = NULL)
    BY <1>2 DEF LoadKicklayout, Fail
  <2> QED
    BY <2>1, <1>f, <1>u
<1>3. ASSUME NEW l \in Line, SkipLine(l) PROVE Goal
  BY <1>3, <1>u DEF SkipLine, ReadLine
<1>4. ASSUME NEW l \in Line, EarlierLabel(l) PROVE Goal
  BY <1>4, <1>u DEF EarlierLabel, ReadLine
<1>5. ASSUME NEW l \in Line, ConfigLabel(l) PROVE Goal
  <2>0. pc = "parse" /\ c < Config
    BY <1>5, KickLoadAssumption DEF ConfigLabel, ReadLine, TypeOK
  <2>1. CASE pc' = "ret"
    <3>1. ret' = NULL /\ UNCHANGED kicklist
      BY <1>5, <2>0, <2>1 DEF ConfigLabel, Fail
    <3> QED
      BY <2>0, <2>1, <3>1, <1>f
  <2>2. CASE pc' # "ret"
    <3>1. PICK p \in Int : kicklist' = alist_init(p)
      <4>1. claim(avail, sizeof_list, claims) \in Int
        BY ClaimType DEF TypeOK
      <4> QED
        BY <1>5, <2>2, <4>1 DEF ConfigLabel, Fail
    <3>2. kicklist = NoList
      BY <1>b, <2>0 DEF ReadInv
    <3>3. Modules = << >>
      BY <3>2, ModulesOfNone DEF Modules
    <3>4. Chain(kicklist', 0, [k \in 1 .. 0 |-> 0])
      BY <3>1, ChainInit
    <3>5. Modules' = << >>
      BY <3>4, ModulesOfChain DEF Modules
    <3> QED
      BY <2>0, <2>2, <3>3, <3>5, Unseen
  <2> QED
    BY <2>1, <2>2
<1>6. ASSUME NEW l \in Line, LaterLabel(l) PROVE Goal
  <2>1. pc = "parse" /\ Finish /\ UNCHANGED kicklist
    BY <1>6 DEF LaterLabel, ReadLine
  <2> QED
    BY <1>b, <2>1, FinishRefines DEF Promise!Next
<1>7. ASSUME NEW l \in Line, ExecLine(l) \/ ModuleLine(l) PROVE Goal
  <2>1. CASE pc' = "ret"
    <3>1. pc # "ret" /\ ret' = NULL /\ UNCHANGED kicklist
      BY <1>7, <2>1 DEF ExecLine, ModuleLine, ReadLine, LoadExec, LoadModule, Fail
    <3> QED
      BY <2>1, <3>1, <1>f
  <2>2. CASE pc' # "ret"
    BY <1>7, <1>b, <2>2, LoadRefines DEF Promise!Next
  <2> QED
    BY <2>1, <2>2
<1>9. ASSUME NEW l \in Line, BadLine(l) PROVE Goal
  BY <1>9, <1>f DEF BadLine, ReadLine, Fail
<1>10. CASE EndOfText
  <2>1. pc = "parse" /\ Finish /\ UNCHANGED kicklist
    BY <1>10 DEF EndOfText
  <2> QED
    BY <1>b, <2>1, FinishRefines DEF Promise!Next
<1>11. CASE UNCHANGED vars
  BY <1>11 DEF vars, Status, Modules
<1> QED
  BY <1>1, <1>2, <1>3, <1>4, <1>5, <1>6, <1>7, <1>9, <1>10, <1>11
     DEF Next, Returned

(***************************************************************************)
(* boot_aos_zipkick() implements KickList on a machine with room, as long  *)
(* as no claim is refused: following the pointers of the kicklist gives a  *)
(* sequence of modules that only grows at its end, the loader first, each  *)
(* with memory of its own, and that is handed over complete or not at all. *)
(***************************************************************************)
THEOREM Refinement == Spec /\ [](Roomy /\ ~ refused) => KickListSpec
<1>1. Init => Promise!Init
  <2> SUFFICES ASSUME Init PROVE Promise!Init
    OBVIOUS
  <2>1. Modules = << >>
    BY ModulesOfNone DEF Init, Modules
  <2> QED
    BY <2>1 DEF Init, Promise!Init, Status
<1>2. /\ TypeOK /\ TypeOK' /\ KickInv /\ KickInv' /\ OrderInv /\ [Next]_vars
      /\ Roomy /\ ~ refused /\ Roomy' /\ ~ refused'
      => [Promise!Next]_<<Status, Modules>>
  BY StepRefines
<1> QED
  BY <1>1, <1>2, TypeCorrect, KickCorrect, OrderCorrect, PTL DEF Spec, KickListSpec, Promise!Spec
=============================================================================

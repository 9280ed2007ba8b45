--------------------------- MODULE FrontendProofs ---------------------------
(***************************************************************************)
(* Proofs about Frontend, for files of any length and every option map,    *)
(* flag map, context and answer of the resolver.                           *)
(***************************************************************************)
EXTENDS Frontend, SequenceTheorems, TLAPS

-----------------------------------------------------------------------------
(***************************************************************************)
(* Specs are functions on their fields.                                    *)
(***************************************************************************)
LEMMA FieldsAre ==
    /\ SpecFields = {"Base", "KernelVersion", "SourceURL", "SourceSHA256",
          "SourceLocalName", "SourceDateEpoch", "ConfigName", "ExpectName", "BaseMake",
          "ApplyPatches", "HTTPSProxy", "HTTPProxy", "NoProxy", "ToolchainReady", "Arch",
          "CrossCompile", "Targets", "ProxyCAFile", "HelperRef", "NetworkHost",
          "IgnoreCache", "SeedURL", "SeedRegion", "SeedPrefix", "SeedPush"}
    /\ DefaultSpec = [f \in SpecFields |-> DefaultSpec[f]]
    /\ DefaultSpec.NetworkHost = FALSE /\ DefaultSpec.IgnoreCache = FALSE
    /\ IsReference(DefaultSpec.Base)
  BY DEF SpecFields, DefaultSpec, IsReference

LEMMA FileKeyIs ==
    /\ DOMAIN FileKey = {"KernelVersion", "SourceURL", "SourceSHA256", "SourceDateEpoch",
          "ConfigName", "ExpectName", "BaseMake", "ApplyPatches", "Arch", "CrossCompile",
          "Targets", "ProxyCAFile", "Base", "ToolchainReady"}
    /\ FileKey["KernelVersion"] = "KERNEL" /\ FileKey["SourceURL"] = "SOURCE_URL"
    /\ FileKey["SourceSHA256"] = "SHA256" /\ FileKey["Base"] = "BASE"
    /\ \A f \in DOMAIN FileKey : FileKey[f] = "BASE" => f = "Base"
  BY DEF FileKey

-----------------------------------------------------------------------------
(***************************************************************************)
(* The file, as it grows line by line.                                     *)
(***************************************************************************)
LEMMA Appended ==
    ASSUME file \in Seq(Lines), NEW l \in Lines, file' = Append(file, l)
    PROVE  /\ file' \in Seq(Lines) /\ Len(file) \in Nat /\ Len(file') = Len(file) + 1
           /\ file'[Len(file) + 1] = l
           /\ \A i \in 1..Len(file) : file'[i] = file[i]
  BY AppendProperties

LEMMA PairsAppend ==
    ASSUME file \in Seq(Lines), NEW l \in Lines, file' = Append(file, l)
    PROVE  Pairs' = IF l.form = "pair" THEN Pairs \union {l} ELSE Pairs
<1>1. /\ Len(file) \in Nat /\ Len(file') = Len(file) + 1 /\ file'[Len(file) + 1] = l
      /\ \A i \in 1..Len(file) : file'[i] = file[i]
  BY Appended
<1>2. 1..Len(file') = 1..Len(file) \union {Len(file) + 1}
  BY <1>1
<1>3. ASSUME NEW x PROVE x \in Pairs' <=> (x \in Pairs \/ (l.form = "pair" /\ x = l))
  <2>1. x \in Pairs' <=> \E j \in 1..Len(file') : file'[j].form = "pair" /\ x = file'[j]
    BY DEF Pairs
  <2>2. x \in Pairs <=> \E j \in 1..Len(file) : file[j].form = "pair" /\ x = file[j]
    BY DEF Pairs
  <2> QED
    BY <1>1, <1>2, <2>1, <2>2
<1>4. CASE l.form = "pair"
  BY <1>3, <1>4
<1>5. CASE l.form # "pair"
  BY <1>3, <1>5
<1> QED
  BY <1>4, <1>5

\* A well written file says one thing about a key.
LEMMA SaysOnce ==
    ASSUME WellWritten, NEW l \in Pairs
    PROVE  /\ FileSays(l.key) /\ FileValue(l.key) = Value(l) /\ Readable(l)
           /\ \A m \in Pairs : m.key = l.key => m = l
<1>1. \A m \in Pairs : m.key = l.key => m = l
  BY DEF WellWritten, Pairs
<1>2. FileSays(l.key)
  BY DEF FileSays
<1>3. (CHOOSE m \in Pairs : m.key = l.key) = l
  BY <1>1
<1> QED
  BY <1>1, <1>2, <1>3 DEF FileValue, WellWritten

LEMMA KeptWritten ==
    ASSUME WellWritten, file \in Seq(Lines), NEW l \in Lines, file' = Append(file, l),
           l.form = "blank" \/ (/\ l.form = "pair" /\ Readable(l)
                                /\ \A m \in Pairs : m.key # l.key)
    PROVE  WellWritten'
<1>1. /\ Len(file) \in Nat /\ Len(file') = Len(file) + 1 /\ file'[Len(file) + 1] = l
      /\ \A i \in 1..Len(file) : file'[i] = file[i]
  BY Appended
<1>2. ASSUME NEW i \in 1..Len(file') PROVE i \in 1..Len(file) \/ i = Len(file) + 1
  BY <1>1
<1>3. \A i \in 1..Len(file') : file'[i].form # "bare"
  BY <1>1, <1>2 DEF WellWritten
<1>4. \A x \in Pairs' : Readable(x)
  <2>1. Pairs' = IF l.form = "pair" THEN Pairs \union {l} ELSE Pairs
    BY PairsAppend
  <2> QED
    BY <2>1 DEF WellWritten
<1>5. \A i \in 1..Len(file) : file[i].form = "pair" => file[i] \in Pairs
  BY DEF Pairs
<1>6. ASSUME NEW i \in 1..Len(file'), NEW j \in 1..Len(file'), i # j,
             file'[i].form = "pair", file'[j].form = "pair"
      PROVE  file'[i].key # file'[j].key
  <2>1. CASE i \in 1..Len(file) /\ j \in 1..Len(file)
    BY <1>1, <1>6, <2>1 DEF WellWritten
  <2>2. CASE i = Len(file) + 1
    BY <1>1, <1>2, <1>5, <1>6, <2>2
  <2>3. CASE j = Len(file) + 1
    BY <1>1, <1>2, <1>5, <1>6, <2>3
  <2> QED
    BY <1>2, <2>1, <2>2, <2>3
<1> QED
  BY <1>3, <1>4, <1>6 DEF WellWritten, Readable

\* A line that is refused makes the file one that is not well written.
LEMMA LostWritten ==
    ASSUME file \in Seq(Lines), NEW l \in Lines, file' = Append(file, l),
           l.form # "blank", seen = {m.key : m \in Pairs}, ~Acceptable(l)
    PROVE  ~WellWritten'
<1> SUFFICES ASSUME WellWritten' PROVE FALSE
  OBVIOUS
<1>1. /\ Len(file) \in Nat /\ Len(file') = Len(file) + 1 /\ file'[Len(file) + 1] = l
      /\ \A i \in 1..Len(file) : file'[i] = file[i]
  BY Appended
<1>2. Len(file) + 1 \in 1..Len(file')
  BY <1>1
<1>3. l.form = "pair"
  <2>1. l.form # "bare"
    BY <1>1, <1>2 DEF WellWritten
  <2> QED
    BY <2>1, FrontendAssumption
<1>4. l \in Pairs'
  BY <1>3, PairsAppend
<1>5. Readable(l)
  BY <1>4 DEF WellWritten
<1>6. l.key \in seen
  BY <1>3, <1>5 DEF Acceptable
<1>7. PICK i \in 1..Len(file) : file[i].form = "pair" /\ file[i].key = l.key
  BY <1>6 DEF Pairs
<1>8. i \in 1..Len(file') /\ i # Len(file) + 1 /\ file'[i] = file[i]
  BY <1>1
<1> QED
  BY <1>1, <1>2, <1>3, <1>7, <1>8 DEF WellWritten

\* One more pair: its key now has its value, the other keys have theirs.
LEMMA SaysMore ==
    ASSUME WellWritten, file \in Seq(Lines), NEW l \in Lines, file' = Append(file, l),
           l.form = "pair", \A m \in Pairs : m.key # l.key, NEW k
    PROVE  /\ FileSays(k)' <=> (FileSays(k) \/ k = l.key)
           /\ k = l.key => FileValue(k)' = Value(l)
           /\ (k # l.key /\ FileSays(k)) => FileValue(k)' = FileValue(k)
<1>1. Pairs' = Pairs \union {l}
  BY PairsAppend
<1>2. FileSays(k)' <=> (FileSays(k) \/ k = l.key)
  BY <1>1 DEF FileSays
<1>3. ASSUME k = l.key PROVE FileValue(k)' = Value(l)
  <2>1. (CHOOSE m \in Pairs' : m.key = k) = l
    BY <1>1, <1>3
  <2> QED
    BY <2>1 DEF FileValue
<1>4. ASSUME k # l.key, FileSays(k) PROVE FileValue(k)' = FileValue(k)
  <2>1. PICK x \in Pairs : x.key = k
    BY <1>4 DEF FileSays
  <2>2. FileValue(k) = Value(x) /\ \A m \in Pairs : m.key = k => m = x
    BY <2>1, SaysOnce
  <2>3. (CHOOSE m \in Pairs' : m.key = k) = x
    BY <1>1, <1>4, <2>1, <2>2
  <2> QED
    BY <2>2, <2>3 DEF FileValue
<1> QED
  BY <1>2, <1>3, <1>4

\* Taking a line sets the field of its key.
LEMMA TakenIsSaid ==
    ASSUME WellWritten, file \in Seq(Lines), NEW l \in Lines, file' = Append(file, l),
           opts' = opts, seen = {m.key : m \in Pairs}, Acceptable(l), spec = Said
    PROVE  SetField(l) = Said'
<1>1. l.form = "pair" /\ \A m \in Pairs : m.key # l.key
  BY DEF Acceptable
<1>2. Started' = Started
  BY DEF Started, Has
<1>3. ASSUME NEW f \in SpecFields PROVE SetField(l)[f] = Said'[f]
  <2>1. SetField(l)[f] = IF f \in DOMAIN FileKey /\ FileKey[f] = l.key THEN Value(l)
                         ELSE Said[f]
    BY DEF SetField, Said
  <2>2. Said'[f] = IF f \in DOMAIN FileKey /\ FileSays(FileKey[f])'
                   THEN FileValue(FileKey[f])' ELSE Started[f]
    BY <1>2 DEF Said
  <2>3. Said[f] = IF f \in DOMAIN FileKey /\ FileSays(FileKey[f])
                  THEN FileValue(FileKey[f]) ELSE Started[f]
    BY DEF Said
  <2>4. /\ FileSays(FileKey[f])' <=> (FileSays(FileKey[f]) \/ FileKey[f] = l.key)
        /\ FileKey[f] = l.key => FileValue(FileKey[f])' = Value(l)
        /\ (FileKey[f] # l.key /\ FileSays(FileKey[f])) =>
              FileValue(FileKey[f])' = FileValue(FileKey[f])
    BY <1>1, SaysMore
  <2> QED
    BY <2>1, <2>2, <2>3, <2>4
<1>4. DOMAIN SetField(l) = SpecFields /\ DOMAIN Said' = SpecFields
  BY DEF SetField, Said
<1>5. /\ SetField(l) = [f \in SpecFields |-> SetField(l)[f]]
      /\ Said' = [f \in SpecFields |-> Said'[f]]
  BY DEF SetField, Said
<1> QED
  BY <1>3, <1>5

\* Nothing is said by a file of which nothing has been read.
LEMMA NothingSaid ==
    ASSUME file = <<>>
    PROVE  WellWritten /\ Pairs = {} /\ Said = Started /\ FileMeans = Started
<1>1. Pairs = {} /\ Len(file) = 0
  BY DEF Pairs
<1>2. \A k : ~FileSays(k)
  BY <1>1 DEF FileSays
<1>3. WellWritten
  BY <1>1 DEF WellWritten
<1>4. Said = Started
  <2>1. Started = [f \in SpecFields |-> Started[f]]
    BY DEF Started
  <2> QED
    BY <1>2, <2>1 DEF Said
<1>5. FileMeans = Started
  BY <1>2 DEF FileMeans, Started, SpecFields
<1> QED
  BY <1>1, <1>3, <1>4, <1>5

\* What is decided after the last line completes what the file means.
LEMMA EndIsMeant ==
    ASSUME spec = Said, seen = {m.key : m \in Pairs}, EndOfFile
    PROVE  spec' = FileMeans
<1> DEFINE url == IF "KERNEL" \in seen /\ "SOURCE_URL" \notin seen
                  THEN SourceURLFor(spec.KernelVersion) ELSE spec.SourceURL
           sum == IF seen \intersect {"KERNEL", "SOURCE_URL"} # {} /\ "SHA256" \notin seen
                  THEN Unset ELSE spec.SourceSHA256
<1>1. \A k : k \in seen <=> FileSays(k)
  BY DEF FileSays
<1>2. spec' = [spec EXCEPT !.SourceURL = url, !.SourceSHA256 = sum]
  BY DEF EndOfFile
<1>3. spec = [f \in SpecFields |-> spec[f]]
  BY DEF Said
<1>4. spec' = [f \in SpecFields |-> IF f = "SourceURL" THEN url
                                    ELSE IF f = "SourceSHA256" THEN sum ELSE spec[f]]
  <2> HIDE DEF url, sum
  <2>1. [spec EXCEPT !.SourceURL = url]
          = [f \in SpecFields |-> IF f = "SourceURL" THEN url ELSE spec[f]]
    BY <1>3
  <2> QED
    BY <1>2, <1>3, <2>1
<1>5. ASSUME NEW f \in SpecFields
      PROVE  spec[f] = IF f \in DOMAIN FileKey /\ FileSays(FileKey[f])
                       THEN FileValue(FileKey[f]) ELSE Started[f]
  BY DEF Said
<1>6. ASSUME NEW f \in SpecFields
      PROVE  Started[f] = IF f = "HelperRef" /\ Has("source") THEN opts["source"]
                          ELSE DefaultSpec[f]
  BY DEF Started
<1>7. {"KernelVersion", "SourceURL", "SourceSHA256"} \subseteq SpecFields
  BY FieldsAre
<1>8. FileSays("KERNEL") => spec.KernelVersion = FileValue("KERNEL")
  BY <1>5, <1>7, FileKeyIs
<1>9. ASSUME NEW f \in SpecFields
      PROVE  (IF f = "SourceURL" THEN url ELSE IF f = "SourceSHA256" THEN sum ELSE spec[f])
               = FileMeans[f]
  <2>1. FileMeans[f] =
          IF f \in DOMAIN FileKey /\ FileSays(FileKey[f]) THEN FileValue(FileKey[f])
          ELSE IF f = "SourceURL" /\ FileSays("KERNEL")
               THEN SourceURLFor(FileValue("KERNEL"))
          ELSE IF f = "SourceSHA256" /\ (FileSays("KERNEL") \/ FileSays("SOURCE_URL"))
               THEN Unset
          ELSE IF f = "HelperRef" /\ Has("source") THEN opts["source"]
          ELSE DefaultSpec[f]
    BY DEF FileMeans, SpecFields
  <2>2. CASE f = "SourceURL"
    BY <1>1, <1>5, <1>6, <1>8, <2>1, <2>2, FileKeyIs
  <2>3. CASE f = "SourceSHA256"
    <3>1. seen \intersect {"KERNEL", "SOURCE_URL"} # {} <=>
            (FileSays("KERNEL") \/ FileSays("SOURCE_URL"))
      BY <1>1
    <3> QED
      BY <1>1, <1>5, <1>6, <2>1, <2>3, <3>1, FileKeyIs
  <2>4. CASE f \notin {"SourceURL", "SourceSHA256"}
    BY <1>5, <1>6, <2>1, <2>4
  <2> QED
    BY <2>2, <2>3, <2>4
<1>10. FileMeans = [f \in SpecFields |-> FileMeans[f]]
  BY DEF FileMeans, SpecFields
<1> HIDE DEF url, sum
<1> QED
  BY <1>4, <1>9, <1>10

-----------------------------------------------------------------------------
(***************************************************************************)
(* The options over the file, and the flags over the defaults.             *)
(***************************************************************************)
LEMMA KeysAre ==
    /\ DOMAIN OptKey = {"SourceSHA256", "SourceDateEpoch", "ConfigName", "ExpectName",
          "BaseMake", "ProxyCAFile", "HelperRef", "SourceLocalName", "Base", "Arch",
          "CrossCompile", "Targets"}
    /\ OptKey["SourceSHA256"] = "source-sha256" /\ OptKey["Base"] = "base"
    /\ DOMAIN BoolKey = {"ToolchainReady", "ApplyPatches", "SeedPush"}
    /\ DOMAIN ProxyKeys = {"HTTPSProxy", "HTTPProxy", "NoProxy"}
    /\ {"KernelVersion", "SourceURL"} \intersect DOMAIN FlagKey = {}
    /\ FlagKey["SourceSHA256"] = "sha256" /\ FlagKey["Base"] = "base"
    /\ {"SourceSHA256", "Base"} \subseteq DOMAIN FlagKey
  BY DEF OptKey, BoolKey, ProxyKeys, FlagKey

\* Assigning to fields of a Spec, one after the other.
LEMMA Assigned ==
    ASSUME NEW s, s = [f \in SpecFields |-> s[f]], NEW g, NEW v
    PROVE  [s EXCEPT ![g] = v] = [f \in SpecFields |-> IF f = g THEN v ELSE s[f]]
  OBVIOUS

LEMMA AssignedVersion ==
    ASSUME NEW s, s = [f \in SpecFields |-> s[f]], NEW v, NEW u, NEW h
    PROVE  [s EXCEPT !.KernelVersion = v, !.SourceURL = u, !.SourceSHA256 = h]
             = [f \in SpecFields |-> IF f = "KernelVersion" THEN v
                                     ELSE IF f = "SourceURL" THEN u
                                     ELSE IF f = "SourceSHA256" THEN h ELSE s[f]]
  OBVIOUS

LEMMA AssignedURL ==
    ASSUME NEW s, s = [f \in SpecFields |-> s[f]], NEW u, NEW h
    PROVE  [s EXCEPT !.SourceURL = u, !.SourceSHA256 = h]
             = [f \in SpecFields |-> IF f = "SourceURL" THEN u
                                     ELSE IF f = "SourceSHA256" THEN h ELSE s[f]]
  OBVIOUS

LEMMA AssignedLast ==
    ASSUME NEW s, s = [f \in SpecFields |-> s[f]], NEW n, NEW a, NEW c
    PROVE  [s EXCEPT !.NetworkHost = n, !.Arch = a, !.IgnoreCache = c]
             = [f \in SpecFields |-> IF f = "NetworkHost" THEN n
                                     ELSE IF f = "Arch" THEN a
                                     ELSE IF f = "IgnoreCache" THEN c ELSE s[f]]
  OBVIOUS

\* The version and the URL: the three fields of the source, the others kept.
LEMMA SourceChosen ==
    ASSUME NEW s, s = [f \in SpecFields |-> s[f]], NEW newVersion \in BOOLEAN,
           newVersion <=> (Has("kernel-version")
                             /\ opts["kernel-version"] # s.KernelVersion),
           NEW url,
           url = IF Has("source-url") THEN opts["source-url"]
                 ELSE IF newVersion THEN SourceURLFor(opts["kernel-version"])
                 ELSE s.SourceURL
    PROVE  optURL(optVersion(s)) =
             [f \in SpecFields |->
                IF f = "KernelVersion"
                THEN IF newVersion THEN opts["kernel-version"] ELSE s.KernelVersion
                ELSE IF f = "SourceURL" THEN url
                ELSE IF f = "SourceSHA256"
                THEN IF newVersion \/ url # s.SourceURL THEN Unset ELSE s.SourceSHA256
                ELSE s[f]]
<1>1. {"KernelVersion", "SourceURL", "SourceSHA256"} \subseteq SpecFields
  BY FieldsAre
<1>2. optVersion(s) =
        [f \in SpecFields |->
           IF f = "KernelVersion"
           THEN IF newVersion THEN opts["kernel-version"] ELSE s.KernelVersion
           ELSE IF f = "SourceURL"
           THEN IF newVersion THEN SourceURLFor(opts["kernel-version"]) ELSE s.SourceURL
           ELSE IF f = "SourceSHA256"
           THEN IF newVersion THEN Unset ELSE s.SourceSHA256
           ELSE s[f]]
  <2>1. CASE newVersion
    BY <2>1, AssignedVersion DEF optVersion
  <2>2. CASE ~newVersion
    <3>1. optVersion(s) = s
      BY <2>2 DEF optVersion
    <3> QED
      BY <2>2, <3>1
  <2> QED
    BY <2>1, <2>2
<1> DEFINE t == optVersion(s)
<1>3. t = [f \in SpecFields |-> t[f]]
  BY <1>2
<1>4. CASE Has("source-url") /\ opts["source-url"] # t.SourceURL
  <2>1. optURL(t) = [f \in SpecFields |->
                       IF f = "SourceURL" THEN opts["source-url"]
                       ELSE IF f = "SourceSHA256" THEN Unset ELSE t[f]]
    BY <1>3, <1>4, AssignedURL DEF optURL
  <2> QED
    BY <1>1, <1>2, <1>4, <2>1
<1>5. CASE ~(Has("source-url") /\ opts["source-url"] # t.SourceURL)
  <2>1. optURL(t) = t
    BY <1>5 DEF optURL
  <2>2. t.SourceURL = url
    BY <1>1, <1>2, <1>5
  <2> QED
    BY <1>1, <1>2, <1>5, <2>1, <2>2
<1> QED
  BY <1>4, <1>5

LEMMA FileMeansShape ==
    /\ FileMeans = [f \in SpecFields |-> FileMeans[f]]
    /\ FileMeans.NetworkHost = FALSE /\ FileMeans.IgnoreCache = FALSE
<1>1. FileMeans = [f \in SpecFields |-> FileMeans[f]]
  BY DEF FileMeans, SpecFields
<1>2. ASSUME NEW g \in {"NetworkHost", "IgnoreCache"} PROVE FileMeans[g] = DefaultSpec[g]
  <2>1. g \in SpecFields /\ g \notin DOMAIN FileKey
    BY FieldsAre, FileKeyIs
  <2> QED
    BY <2>1 DEF FileMeans, SpecFields
<1> QED
  BY <1>1, <1>2, FieldsAre

\* The layer of options that replace a field each.
LEMMA LayerShape ==
    ASSUME NEW s, s = [f \in SpecFields |-> s[f]], NEW f \in SpecFields
    PROVE  LET t == optBools(optProxies(Override(s, OptKey)))
           IN  /\ t = [g \in SpecFields |-> t[g]]
               /\ t[f] = IF f \in DOMAIN BoolKey /\ Has(BoolKey[f])
                         THEN opts[BoolKey[f]] = "true"
                         ELSE IF f \in DOMAIN ProxyKeys /\ Has(ProxyKeys[f][1])
                         THEN opts[ProxyKeys[f][1]]
                         ELSE IF f \in DOMAIN ProxyKeys /\ Has(ProxyKeys[f][2])
                         THEN opts[ProxyKeys[f][2]]
                         ELSE IF f \in DOMAIN OptKey /\ Has(OptKey[f])
                         THEN opts[OptKey[f]] ELSE s[f]
<1> DEFINE q == Override(s, OptKey)
           r == optProxies(q)
<1>1. DOMAIN s = SpecFields
  OBVIOUS
<1>2. /\ DOMAIN q = SpecFields
      /\ q[f] = IF f \in DOMAIN OptKey /\ Has(OptKey[f]) THEN opts[OptKey[f]] ELSE s[f]
  BY <1>1 DEF Override
<1>3. /\ DOMAIN r = SpecFields
      /\ r[f] = IF f \notin DOMAIN ProxyKeys THEN q[f]
                ELSE IF Has(ProxyKeys[f][1]) THEN opts[ProxyKeys[f][1]]
                ELSE IF Has(ProxyKeys[f][2]) THEN opts[ProxyKeys[f][2]] ELSE q[f]
  <2> HIDE DEF q
  <2> QED
    BY <1>2 DEF optProxies
<1>4. /\ optBools(r) = [g \in SpecFields |-> optBools(r)[g]]
      /\ optBools(r)[f] = IF f \in DOMAIN BoolKey /\ Has(BoolKey[f])
                          THEN opts[BoolKey[f]] = "true" ELSE r[f]
  <2> HIDE DEF r
  <2> QED
    BY <1>3 DEF optBools
<1>5. \A g : ~(g \in DOMAIN OptKey /\ g \in DOMAIN ProxyKeys)
  BY KeysAre
<1> QED
  BY <1>2, <1>3, <1>4, <1>5

\* applyOpts makes of what the file means what the whole invocation means.
LEMMA OptsAreMeant ==
    applyOpts(FileMeans) = GatewayMeans
<1> DEFINE nv == Has("kernel-version")
                   /\ opts["kernel-version"] # FileMeans.KernelVersion
           src == SourceMeans(FileMeans, nv, "source-sha256")
           s == optURL(optVersion(FileMeans))
           t == optBools(optProxies(Override(s, OptKey)))
           b == optBools(optProxies(Override(FileMeans, OptKey)))
           n == Has("force-network-mode") /\ opts["force-network-mode"] = "host"
           a == IF Has("platform") THEN archForPlatform(opts["platform"]) ELSE t.Arch
<1>1. PICK url : url = IF Has("source-url") THEN opts["source-url"]
                       ELSE IF nv THEN SourceURLFor(opts["kernel-version"])
                       ELSE FileMeans.SourceURL
  OBVIOUS
<1>2. s = [f \in SpecFields |->
             IF f = "KernelVersion"
             THEN IF nv THEN opts["kernel-version"] ELSE FileMeans.KernelVersion
             ELSE IF f = "SourceURL" THEN url
             ELSE IF f = "SourceSHA256"
             THEN IF nv \/ url # FileMeans.SourceURL THEN Unset
                  ELSE FileMeans.SourceSHA256
             ELSE FileMeans[f]]
  <2>1. PICK v \in BOOLEAN : v = nv
    OBVIOUS
  <2>2. v <=> (Has("kernel-version") /\ opts["kernel-version"] # FileMeans.KernelVersion)
    BY <2>1
  <2> HIDE DEF nv
  <2>3. url = IF Has("source-url") THEN opts["source-url"]
              ELSE IF v THEN SourceURLFor(opts["kernel-version"])
              ELSE FileMeans.SourceURL
    BY <1>1, <2>1
  <2>4. s = [f \in SpecFields |->
               IF f = "KernelVersion"
               THEN IF v THEN opts["kernel-version"] ELSE FileMeans.KernelVersion
               ELSE IF f = "SourceURL" THEN url
               ELSE IF f = "SourceSHA256"
               THEN IF v \/ url # FileMeans.SourceURL THEN Unset
                    ELSE FileMeans.SourceSHA256
               ELSE FileMeans[f]]
    BY <2>2, <2>3, SourceChosen, FileMeansShape
  <2> QED
    BY <2>1, <2>4
<1>3. /\ DOMAIN src = {"KernelVersion", "SourceURL", "SourceSHA256"}
      /\ src.KernelVersion = IF nv THEN opts["kernel-version"] ELSE FileMeans.KernelVersion
      /\ src.SourceURL = url
      /\ src.SourceSHA256 = IF Has("source-sha256") THEN opts["source-sha256"]
                            ELSE IF nv \/ url # FileMeans.SourceURL THEN Unset
                            ELSE FileMeans.SourceSHA256
  BY <1>1 DEF SourceMeans
<1>4. s = [f \in SpecFields |-> s[f]]
  BY <1>2
<1>5. /\ t = [f \in SpecFields |-> t[f]]
      /\ \A f \in SpecFields :
            t[f] = IF f \in DOMAIN BoolKey /\ Has(BoolKey[f])
                   THEN opts[BoolKey[f]] = "true"
                   ELSE IF f \in DOMAIN ProxyKeys /\ Has(ProxyKeys[f][1])
                   THEN opts[ProxyKeys[f][1]]
                   ELSE IF f \in DOMAIN ProxyKeys /\ Has(ProxyKeys[f][2])
                   THEN opts[ProxyKeys[f][2]]
                   ELSE IF f \in DOMAIN OptKey /\ Has(OptKey[f])
                   THEN opts[OptKey[f]] ELSE s[f]
  <2> HIDE DEF s
  <2>1. "Arch" \in SpecFields
    BY FieldsAre
  <2> QED
    BY <1>4, <2>1, LayerShape
<1>6. /\ b = [f \in SpecFields |-> b[f]]
      /\ \A f \in SpecFields :
            b[f] = IF f \in DOMAIN BoolKey /\ Has(BoolKey[f])
                   THEN opts[BoolKey[f]] = "true"
                   ELSE IF f \in DOMAIN ProxyKeys /\ Has(ProxyKeys[f][1])
                   THEN opts[ProxyKeys[f][1]]
                   ELSE IF f \in DOMAIN ProxyKeys /\ Has(ProxyKeys[f][2])
                   THEN opts[ProxyKeys[f][2]]
                   ELSE IF f \in DOMAIN OptKey /\ Has(OptKey[f])
                   THEN opts[OptKey[f]] ELSE FileMeans[f]
  <2>1. "Arch" \in SpecFields
    BY FieldsAre
  <2> QED
    BY <2>1, LayerShape, FileMeansShape
<1>7. ASSUME NEW f \in SpecFields \ {"KernelVersion", "SourceURL", "SourceSHA256"}
      PROVE  t[f] = b[f]
  <2>1. s[f] = FileMeans[f]
    BY <1>2
  <2> HIDE DEF s, t, b
  <2> QED
    BY <1>5, <1>6, <2>1
<1>8. ASSUME NEW f \in {"KernelVersion", "SourceURL", "SourceSHA256"}
      PROVE  t[f] = src[f]
  <2>1. f \in SpecFields /\ f \notin DOMAIN BoolKey /\ f \notin DOMAIN ProxyKeys
    BY FieldsAre, KeysAre
  <2>2. s[f] = IF f = "KernelVersion"
               THEN IF nv THEN opts["kernel-version"] ELSE FileMeans.KernelVersion
               ELSE IF f = "SourceURL" THEN url
               ELSE IF nv \/ url # FileMeans.SourceURL THEN Unset
                    ELSE FileMeans.SourceSHA256
    BY <1>2, <2>1
  <2>3. t[f] = IF f \in DOMAIN OptKey /\ Has(OptKey[f]) THEN opts[OptKey[f]] ELSE s[f]
    <3> HIDE DEF s, t
    <3> QED
      BY <1>5, <2>1
  <2> HIDE DEF s, t, src, nv
  <2> QED
    BY <1>3, <2>2, <2>3, KeysAre
<1>9. t.NetworkHost = FALSE /\ t.IgnoreCache = FALSE
  <2>1. ASSUME NEW f \in {"NetworkHost", "IgnoreCache"} PROVE t[f] = FileMeans[f]
    <3>1. /\ f \in SpecFields \ {"KernelVersion", "SourceURL", "SourceSHA256"}
          /\ f \notin DOMAIN BoolKey /\ f \notin DOMAIN ProxyKeys /\ f \notin DOMAIN OptKey
      BY FieldsAre, KeysAre
    <3>2. t[f] = b[f]
      BY <1>7, <3>1
    <3> HIDE DEF t, b
    <3> QED
      BY <1>6, <3>1, <3>2
  <2> HIDE DEF t
  <2> QED
    BY <2>1, FileMeansShape
<1>10. applyOpts(FileMeans) =
         [t EXCEPT !.NetworkHost = n, !.Arch = a, !.IgnoreCache = Has("no-cache")]
  <2>1. n \in BOOLEAN /\ Has("no-cache") \in BOOLEAN
    BY DEF Has
  <2>2. applyOpts(FileMeans) =
         [t EXCEPT !.NetworkHost = t.NetworkHost \/ n, !.Arch = a,
                   !.IgnoreCache = t.IgnoreCache \/ Has("no-cache")]
    BY <1>5 DEF applyOpts
  <2>3. (t.NetworkHost \/ n) = n /\ (t.IgnoreCache \/ Has("no-cache")) = Has("no-cache")
    <3> HIDE DEF t, n
    <3> QED
      BY <1>9, <2>1
  <2> HIDE DEF t, n, a
  <2> QED
    BY <2>2, <2>3
<1>11. applyOpts(FileMeans) =
         [f \in SpecFields |-> IF f = "NetworkHost" THEN n
                               ELSE IF f = "Arch" THEN a
                               ELSE IF f = "IgnoreCache" THEN Has("no-cache") ELSE t[f]]
  <2> HIDE DEF t, n, a
  <2> QED
    BY <1>5, <1>10, AssignedLast
<1>12. GatewayMeans =
         [f \in SpecFields |->
            CASE f \in DOMAIN src -> src[f]
              [] f = "Arch" /\ Has("platform") -> archForPlatform(opts["platform"])
              [] f = "NetworkHost" -> n
              [] f = "IgnoreCache" -> Has("no-cache")
              [] OTHER -> b[f]]
  BY DEF GatewayMeans, SpecFields
<1>13. ASSUME NEW f \in SpecFields
       PROVE  (IF f = "NetworkHost" THEN n ELSE IF f = "Arch" THEN a
               ELSE IF f = "IgnoreCache" THEN Has("no-cache") ELSE t[f])
              = CASE f \in DOMAIN src -> src[f]
                  [] f = "Arch" /\ Has("platform") -> archForPlatform(opts["platform"])
                  [] f = "NetworkHost" -> n
                  [] f = "IgnoreCache" -> Has("no-cache")
                  [] OTHER -> b[f]
  <2>1. a = IF Has("platform") THEN archForPlatform(opts["platform"]) ELSE t["Arch"]
    OBVIOUS
  <2> HIDE DEF t, n, a, b, src
  <2>2. CASE f \in {"KernelVersion", "SourceURL", "SourceSHA256"}
    BY <1>3, <1>8, <2>2
  <2>3. CASE f = "Arch"
    BY <1>3, <1>7, <2>1, <2>3
  <2>4. CASE f \in {"NetworkHost", "IgnoreCache"}
    BY <1>3, <2>4
  <2>5. CASE f \notin {"KernelVersion", "SourceURL", "SourceSHA256", "Arch",
                       "NetworkHost", "IgnoreCache"}
    BY <1>3, <1>7, <2>5
  <2> QED
    BY <2>2, <2>3, <2>4, <2>5
<1> HIDE DEF t, n, a, b, src
<1> QED
  BY <1>11, <1>12, <1>13

\* The flags, which know no URL, make of the defaults what kbuildctl is asked.
LEMMA FlagsAreMeant ==
    ASSUME ~Has("source-url")
    PROVE  Override(flagVersion(DefaultSpec), FlagKey) = CtlMeans
<1> DEFINE nv == Has("kernel-version")
           src == SourceMeans(DefaultSpec, nv, "sha256")
           s == flagVersion(DefaultSpec)
           v == opts["kernel-version"]
<1>1. s = [f \in SpecFields |->
             IF f = "KernelVersion" /\ nv THEN v
             ELSE IF f = "SourceURL" /\ nv THEN SourceURLFor(v)
             ELSE IF f = "SourceSHA256" /\ nv THEN Unset ELSE DefaultSpec[f]]
  <2>1. CASE nv
    <3> HIDE DEF v
    <3>1. s = [DefaultSpec EXCEPT !.KernelVersion = v, !.SourceURL = SourceURLFor(v),
                                  !.SourceSHA256 = Unset]
      BY <2>1 DEF flagVersion, v
    <3> HIDE DEF s, nv
    <3> QED
      BY <2>1, <3>1, AssignedVersion, FieldsAre
  <2>2. CASE ~nv
    <3>1. s = DefaultSpec
      BY <2>2 DEF flagVersion
    <3> HIDE DEF s, nv
    <3> QED
      BY <2>2, <3>1, FieldsAre
  <2> QED
    BY <2>1, <2>2
<1>2. /\ DOMAIN src = {"KernelVersion", "SourceURL", "SourceSHA256"}
      /\ src.KernelVersion = IF nv THEN v ELSE DefaultSpec.KernelVersion
      /\ src.SourceURL = IF nv THEN SourceURLFor(v) ELSE DefaultSpec.SourceURL
      /\ src.SourceSHA256 = IF Has("sha256") THEN opts["sha256"]
                            ELSE IF nv THEN Unset ELSE DefaultSpec.SourceSHA256
  BY DEF SourceMeans
<1>3. Override(s, FlagKey) =
        [f \in SpecFields |-> IF f \in DOMAIN FlagKey /\ Has(FlagKey[f])
                              THEN opts[FlagKey[f]] ELSE s[f]]
  <2>1. DOMAIN s = SpecFields
    BY <1>1
  <2> HIDE DEF s
  <2> QED
    BY <2>1 DEF Override
<1>4. CtlMeans =
        [f \in SpecFields |->
           IF f \in DOMAIN src THEN src[f]
           ELSE IF f \in DOMAIN FlagKey /\ Has(FlagKey[f])
           THEN opts[FlagKey[f]] ELSE DefaultSpec[f]]
  BY DEF CtlMeans, Override, SpecFields
<1>5. ASSUME NEW f \in SpecFields
      PROVE  (IF f \in DOMAIN FlagKey /\ Has(FlagKey[f]) THEN opts[FlagKey[f]] ELSE s[f])
             = IF f \in DOMAIN src THEN src[f]
               ELSE IF f \in DOMAIN FlagKey /\ Has(FlagKey[f])
               THEN opts[FlagKey[f]] ELSE DefaultSpec[f]
  <2>1. s[f] = IF f = "KernelVersion" /\ nv THEN v
               ELSE IF f = "SourceURL" /\ nv THEN SourceURLFor(v)
               ELSE IF f = "SourceSHA256" /\ nv THEN Unset ELSE DefaultSpec[f]
    BY <1>1
  <2> HIDE DEF s, nv, v, src
  <2> QED
    BY <1>2, <2>1, KeysAre
<1> HIDE DEF s, nv, v, src
<1>6. Override(s, FlagKey) = CtlMeans
  BY <1>3, <1>4, <1>5
<1> QED
  BY <1>6 DEF s

-----------------------------------------------------------------------------
(***************************************************************************)
(* The base: a reference, and what pinning it leaves as it was.            *)
(***************************************************************************)
LEMMA FileBase ==
    ASSUME WellWritten, file \in Seq(Lines)
    PROVE  IsReference(FileMeans.Base)
<1>1. "Base" \in SpecFields /\ FileKey["Base"] = "BASE" /\ "Base" \in DOMAIN FileKey
  BY FieldsAre, FileKeyIs
<1>2. CASE FileSays("BASE")
  <2>1. PICK l \in Pairs : l.key = "BASE"
    BY <1>2 DEF FileSays
  <2>2. FileValue("BASE") = Value(l)
    BY <2>1, SaysOnce
  <2>3. Value(l) = l.val
    <3>1. DOMAIN Words = {"PATCHES", "TOOLCHAIN"}
      BY DEF Words
    <3> QED
      BY <2>1, <3>1 DEF Value
  <2>4. l \in Lines /\ l.form = "pair"
    <3>1. PICK i \in 1..Len(file) : file[i].form = "pair" /\ l = file[i]
      BY DEF Pairs
    <3>2. file[i] \in Lines
      BY ElementOfSeq
    <3> QED
      BY <3>1, <3>2
  <2>5. IsReference(l.val)
    BY <2>1, <2>4, FrontendAssumption
  <2>6. FileMeans.Base = FileValue("BASE")
    BY <1>1, <1>2 DEF FileMeans, SpecFields
  <2> QED
    BY <2>2, <2>3, <2>5, <2>6
<1>3. CASE ~FileSays("BASE")
  <2>1. FileMeans.Base = DefaultSpec.Base
    BY <1>1, <1>3 DEF FileMeans, SpecFields
  <2> QED
    BY <2>1, FieldsAre
<1> QED
  BY <1>2, <1>3

LEMMA MeansShape ==
    ASSUME via = "gateway" => WellWritten, file \in Seq(Lines),
           opts \in GatewayOpts \union CtlFlags
    PROVE  Means = [f \in SpecFields |-> Means[f]] /\ IsReference(Means.Base)
<1>1. "Base" \in SpecFields
  BY FieldsAre
<1>2. Has("base") => IsReference(opts["base"])
  BY FrontendAssumption DEF Has
<1>3. CASE via = "gateway"
  <2>1. Means = [f \in SpecFields |-> Means[f]]
    BY <1>3 DEF Means, GatewayMeans, SpecFields
  <2>2. Means.Base = optBools(optProxies(Override(FileMeans, OptKey))).Base
    <3>1. GatewayMeans.Base = optBools(optProxies(Override(FileMeans, OptKey))).Base
      BY <1>1 DEF GatewayMeans, SourceMeans, SpecFields
    <3> QED
      BY <1>3, <3>1 DEF Means
  <2>3. Means.Base = IF Has("base") THEN opts["base"] ELSE FileMeans.Base
    BY <1>1, <2>2, LayerShape, FileMeansShape, KeysAre
  <2> QED
    BY <1>2, <1>3, <2>1, <2>3, FileBase
<1>4. CASE via # "gateway"
  <2>1. Means = [f \in SpecFields |-> Means[f]]
    BY <1>4 DEF Means, CtlMeans, SpecFields
  <2>2. CtlMeans.Base = Override(DefaultSpec, FlagKey).Base
    BY <1>1 DEF CtlMeans, SourceMeans, SpecFields
  <2>3. Override(DefaultSpec, FlagKey).Base =
          IF Has("base") THEN opts["base"] ELSE DefaultSpec.Base
    BY <1>1, KeysAre DEF Override, SpecFields
  <2> QED
    BY <1>2, <1>4, <2>1, <2>2, <2>3, FieldsAre DEF Means
<1> QED
  BY <1>3, <1>4

\* Neither the checks nor the files of the context look at the digest.
LEMMA PinKeeps ==
    ASSUME NEW s, s = [f \in SpecFields |-> s[f]], IsReference(s.Base), NEW d,
           NEW t, t = [s EXCEPT !.Base.digest = d]
    PROVE  /\ t.Base.digest = d
           /\ Validate(t) <=> Validate(s)
           /\ \A c : InContext(t, c) <=> InContext(s, c)
<1>1. "Base" \in SpecFields
  BY FieldsAre
<1>2. t = [s EXCEPT !.Base = [s.Base EXCEPT !.digest = d]]
  OBVIOUS
<1>3. t = [f \in SpecFields |-> IF f = "Base" THEN [s.Base EXCEPT !.digest = d] ELSE s[f]]
  BY <1>2, Assigned
<1>4. t.Base = [s.Base EXCEPT !.digest = d]
  BY <1>1, <1>3
<1>5. t.Base.digest = d /\ t.Base.name = s.Base.name
  BY <1>4 DEF IsReference
<1>6. /\ t.KernelVersion = s.KernelVersion /\ t.SourceURL = s.SourceURL
      /\ t.SourceSHA256 = s.SourceSHA256 /\ t.SourceLocalName = s.SourceLocalName
      /\ t.SourceDateEpoch = s.SourceDateEpoch /\ t.ConfigName = s.ConfigName
      /\ t.ExpectName = s.ExpectName /\ t.ApplyPatches = s.ApplyPatches
      /\ t.ToolchainReady = s.ToolchainReady /\ t.Arch = s.Arch
      /\ t.Targets = s.Targets /\ t.ProxyCAFile = s.ProxyCAFile
      /\ t.SeedURL = s.SeedURL /\ t.SeedRegion = s.SeedRegion
      /\ t.SeedPrefix = s.SeedPrefix /\ t.SeedPush = s.SeedPush
  BY <1>3, FieldsAre
<1>7. \A f \in Patterned : t[f] = s[f]
  <2>1. Patterned \subseteq SpecFields /\ "Base" \notin Patterned
    BY FieldsAre DEF Patterned
  <2> QED
    BY <1>3, <2>1
<1>8. archOrDefault(t) = archOrDefault(s)
  BY <1>6 DEF archOrDefault
<1>9. Validate(t) <=> Validate(s)
  <2>1. (\A f \in Patterned : t[f] # Bad) <=> (\A f \in Patterned : s[f] # Bad)
    BY <1>7
  <2> DEFINE FromOK(x) ==
               IF x.SourceLocalName = Unset
               THEN x.SourceURL.scheme = "https" /\ SourceExt(x.SourceURL.ext)
               ELSE x.SourceLocalName # "linux.zip"
             SeedOK(x) ==
               /\ x.SeedPush => x.SourceLocalName # Unset \/ x.SourceSHA256 # Unset
               /\ x.SeedURL # Unset =>
                     /\ Bad \notin {x.SeedURL, x.SeedPrefix, x.SeedRegion}
                     /\ x.SeedPrefix # Unset
             RestOK(x) ==
               /\ x.KernelVersion.rest # Bad
               /\ x.ConfigName # Unset /\ x.SourceDateEpoch # Unset
               /\ Timestamp(x.SourceDateEpoch)
               /\ x.Base.name # Bad
               /\ archOrDefault(x) \in {"x86_64", "arm64"}
               /\ archOrDefault(x) = "arm64" => x.ToolchainReady
               /\ \A i \in 1..Len(x.Targets) : x.Targets[i] \in TargetTokens
  <2>2. FromOK(t) <=> FromOK(s)
    BY <1>6
  <2>3. SeedOK(t) <=> SeedOK(s)
    BY <1>6
  <2>4. RestOK(t) <=> RestOK(s)
    BY <1>5, <1>6, <1>8
  <2>5. \A x : Validate(x) <=> /\ FromOK(x) /\ SeedOK(x) /\ RestOK(x)
                              /\ \A f \in Patterned : x[f] # Bad
    BY DEF Validate
  <2> HIDE DEF FromOK, SeedOK, RestOK
  <2> QED
    BY <2>1, <2>2, <2>3, <2>4, <2>5
<1>10. \A c : InContext(t, c) <=> InContext(s, c)
  BY <1>6 DEF InContext, contextFiles
<1> QED
  BY <1>5, <1>9, <1>10

-----------------------------------------------------------------------------
(***************************************************************************)
(* What depends only on the invocation and the file.                       *)
(***************************************************************************)
LEMMA Frame ==
    ASSUME UNCHANGED <<via, opts, file>>
    PROVE  /\ Pairs' = Pairs /\ Said' = Said /\ FileMeans' = FileMeans /\ Means' = Means
           /\ WellWritten' <=> WellWritten
           /\ OptsOK' <=> OptsOK
           /\ ImportsOK' <=> ImportsOK
           /\ Sensible' <=> Sensible
           /\ Accepted' <=> Accepted
           /\ \A k : Has(k)' <=> Has(k)
<1>1. Pairs' = Pairs
  BY DEF Pairs
<1>2. \A k : Has(k)' <=> Has(k)
  BY DEF Has
<1>3. Said' = Said
  BY <1>1 DEF Said, Started, FileSays, FileValue, Has
<1>4. FileMeans' = FileMeans
  BY <1>1 DEF FileMeans, FileSays, FileValue, Has
<1>5. WellWritten' <=> WellWritten
  BY <1>1 DEF WellWritten
<1>6. (OptsOK' <=> OptsOK) /\ (ImportsOK' <=> ImportsOK)
  BY DEF OptsOK, ImportsOK, Has
<1>7. GatewayMeans' = GatewayMeans
  BY <1>4 DEF GatewayMeans, SourceMeans, optBools, optProxies, Override, Has
<1>8. CtlMeans' = CtlMeans
  BY DEF CtlMeans, SourceMeans, Override, Has
<1>9. Means' = Means
  BY <1>7, <1>8 DEF Means
<1>10. CacheEntries' = CacheEntries
  BY DEF CacheEntries, Has
<1>11. Sensible' <=> Sensible
  BY <1>2, <1>5, <1>6, <1>9, <1>10 DEF Sensible
<1>12. Accepted' <=> Accepted
  BY <1>2, <1>5, <1>6, <1>9 DEF Accepted
<1> QED
  BY <1>1, <1>2, <1>3, <1>4, <1>5, <1>6, <1>9, <1>11, <1>12

\* A step that goes on needs the locations' own claims, one that refuses a cause.
LEMMA GoesOn ==
    ASSUME FrontendInv, UNCHANGED <<via, opts, trouble, reply>>, pc # "done",
           pc' \in {"start", "fetch", "scan", "opts", "validate", "attach", "resolve",
                    "context", "graph"},
           file' \in Seq(Lines), LayerInv', CheckInv'
    PROVE  FrontendInv'
  BY DEF FrontendInv, BuildsWhatIsAsked, RefusedForCause, NoReply

LEMMA EndsWell ==
    ASSUME FrontendInv, UNCHANGED <<via, opts>>, pc' = "done", file' \in Seq(Lines),
           BuildsWhatIsAsked', RefusedForCause'
    PROVE  FrontendInv'
  BY DEF FrontendInv, LayerInv, CheckInv

LEMMA Refuses ==
    ASSUME FrontendInv, UNCHANGED <<via, opts>>, Reply(Refused), file' \in Seq(Lines),
           \/ trouble' \/ ~Sensible'
           \/ context' # <<>> /\ ~InContext(Means, context[1])'
    PROVE  FrontendInv'
<1>1. BuildsWhatIsAsked' /\ RefusedForCause' /\ pc' = "done"
  BY DEF Reply, Refused, BuildsWhatIsAsked, RefusedForCause
<1> QED
  BY <1>1, EndsWell

-----------------------------------------------------------------------------
(***************************************************************************)
(* The steps up to the options.                                            *)
(***************************************************************************)
LEMMA StepSubrequest == ASSUME FrontendInv, Subrequest PROVE FrontendInv'
<1>1. file' \in Seq(Lines)
  BY DEF FrontendInv, Subrequest
<1>2. ~Sensible'
  BY DEF Subrequest, Sensible, Has
<1>3. CASE opts["requestid"] = "describe"
  <2>1. BuildsWhatIsAsked' /\ RefusedForCause' /\ pc' = "done"
    BY <1>3 DEF Subrequest, Reply, Described, BuildsWhatIsAsked, RefusedForCause
  <2> QED
    BY <1>1, <2>1, EndsWell DEF Subrequest
<1>4. CASE opts["requestid"] # "describe"
  <2>1. Reply(Refused)
    BY <1>4 DEF Subrequest
  <2> QED
    BY <1>1, <1>2, <2>1, Refuses DEF Subrequest
<1> QED
  BY <1>3, <1>4

LEMMA StepBuildRequest == ASSUME FrontendInv, BuildRequest PROVE FrontendInv'
<1>1. file = <<>> /\ seen = {} /\ spec = DefaultSpec /\ pc = "start"
  BY DEF BuildRequest, FrontendInv, LayerInv
<1>2. spec' = Started
  <2>1. CASE Has("source")
    <3>1. spec' = [DefaultSpec EXCEPT !.HelperRef = opts["source"]]
      BY <1>1, <2>1 DEF BuildRequest
    <3>2. [DefaultSpec EXCEPT !["HelperRef"] = opts["source"]]
            = [f \in SpecFields |-> IF f = "HelperRef" THEN opts["source"]
                                    ELSE DefaultSpec[f]]
      BY Assigned, FieldsAre
    <3> QED
      BY <2>1, <3>1, <3>2 DEF Started
  <2>2. CASE ~Has("source")
    <3>1. spec' = DefaultSpec
      BY <1>1, <2>2 DEF BuildRequest
    <3> QED
      BY <2>2, <3>1, FieldsAre DEF Started
  <2> QED
    BY <2>1, <2>2
<1>3. WellWritten /\ Said = Started /\ FileMeans = Started
  BY <1>1, NothingSaid
<1>4. /\ Said' = Said /\ FileMeans' = FileMeans /\ (WellWritten' <=> WellWritten)
      /\ (Has("requestid")' <=> Has("requestid"))
  BY Frame DEF BuildRequest
<1>5. pc' \in {"fetch", "opts"}
  BY DEF BuildRequest, Goto
<1>6. LayerInv'
  BY <1>1, <1>2, <1>3, <1>4, <1>5 DEF LayerInv, BuildRequest
<1>7. CheckInv'
  BY <1>4, <1>5 DEF CheckInv, BuildRequest
<1>8. file' \in Seq(Lines)
  BY DEF FrontendInv, BuildRequest
<1> QED
  BY <1>1, <1>5, <1>6, <1>7, <1>8, GoesOn DEF BuildRequest

LEMMA StepFails ==
    ASSUME FrontendInv, FetchFails \/ ScanFails \/ ResolveFails \/ CheckContextFails
    PROVE  FrontendInv'
<1>1. UNCHANGED <<via, opts, file>> /\ Reply(Refused) /\ trouble' = TRUE
  BY DEF FetchFails, ScanFails, ResolveFails, CheckContextFails, Fails
<1>2. file' \in Seq(Lines)
  BY <1>1 DEF FrontendInv
<1> QED
  BY <1>1, <1>2, Refuses

LEMMA StepFetched == ASSUME FrontendInv, Fetched PROVE FrontendInv'
<1>1. file = <<>> /\ seen = {} /\ spec = Said /\ pc = "fetch" /\ pc' = "scan"
  BY DEF Fetched, FrontendInv, LayerInv, Goto
<1>2. WellWritten /\ Pairs = {}
  BY <1>1, NothingSaid
<1>3. /\ Said' = Said /\ (WellWritten' <=> WellWritten) /\ Pairs' = Pairs
      /\ (Has("requestid")' <=> Has("requestid"))
  BY Frame DEF Fetched
<1>4. seen' = {l.key : l \in Pairs'}
  BY <1>1, <1>2, <1>3 DEF Fetched
<1>5. LayerInv'
  BY <1>1, <1>2, <1>3, <1>4 DEF LayerInv, Fetched
<1>6. CheckInv'
  BY <1>1, <1>3 DEF FrontendInv, CheckInv, Fetched
<1>7. file' \in Seq(Lines)
  BY DEF FrontendInv, Fetched
<1> QED
  BY <1>1, <1>5, <1>6, <1>7, GoesOn DEF Fetched

LEMMA StepScanLine == ASSUME FrontendInv, ScanLine PROVE FrontendInv'
<1>1. /\ pc = "scan" /\ via = "gateway" /\ WellWritten /\ spec = Said
      /\ seen = {m.key : m \in Pairs} /\ file \in Seq(Lines) /\ ~Has("requestid")
  BY DEF ScanLine, FrontendInv, LayerInv, CheckInv
<1>2. /\ UNCHANGED <<via, opts, trouble, context>>
      /\ (Has("requestid")' <=> Has("requestid"))
  BY DEF ScanLine, Has
<1>3. PICK l \in Lines :
        file' = Append(file, l) /\ (SkipLine(l) \/ TakeLine(l) \/ RejectLine(l))
  BY DEF ScanLine
<1>4. file' \in Seq(Lines)
  BY <1>1, <1>3, Appended
<1>5. ASSUME pc' = "scan", UNCHANGED reply, seen' = {m.key : m \in Pairs'},
             WellWritten', spec' = Said'
      PROVE  FrontendInv'
  <2>1. LayerInv'
    BY <1>5 DEF LayerInv
  <2>2. CheckInv'
    BY <1>1, <1>2, <1>5 DEF CheckInv
  <2> QED
    BY <1>1, <1>2, <1>4, <1>5, <2>1, <2>2, GoesOn
<1>6. CASE SkipLine(l)
  <2>1. l.form = "blank" /\ UNCHANGED <<pc, seen, spec, reply>>
    BY <1>6 DEF SkipLine
  <2>2. Pairs' = Pairs
    BY <1>1, <1>3, <2>1, PairsAppend
  <2>3. WellWritten'
    BY <1>1, <1>3, <2>1, KeptWritten
  <2>4. Said' = Said
    BY <1>2, <2>2 DEF Said, Started, FileSays, FileValue, Has
  <2> QED
    BY <1>1, <1>5, <2>1, <2>2, <2>3, <2>4
<1>7. CASE TakeLine(l)
  <2>1. /\ Acceptable(l) /\ seen' = seen \union {l.key} /\ spec' = SetField(l)
        /\ UNCHANGED <<pc, reply>>
    BY <1>7 DEF TakeLine
  <2>2. l.form = "pair" /\ Readable(l) /\ \A m \in Pairs : m.key # l.key
    BY <1>1, <2>1 DEF Acceptable
  <2>3. Pairs' = Pairs \union {l}
    BY <1>1, <1>3, <2>2, PairsAppend
  <2>4. seen' = {m.key : m \in Pairs'}
    BY <1>1, <2>1, <2>3
  <2>5. WellWritten'
    BY <1>1, <1>3, <2>2, KeptWritten
  <2>6. spec' = Said'
    BY <1>1, <1>2, <1>3, <2>1, TakenIsSaid
  <2> QED
    BY <1>1, <1>5, <2>1, <2>4, <2>5, <2>6
<1>8. CASE RejectLine(l)
  <2>1. ~WellWritten'
    BY <1>1, <1>3, <1>8, LostWritten DEF RejectLine
  <2>2. ~Sensible'
    BY <1>1, <1>2, <2>1 DEF Sensible
  <2> QED
    BY <1>2, <1>4, <1>8, <2>2, Refuses DEF RejectLine
<1> QED
  BY <1>3, <1>6, <1>7, <1>8

LEMMA StepEndOfFile == ASSUME FrontendInv, EndOfFile PROVE FrontendInv'
<1>1. /\ pc = "scan" /\ WellWritten /\ via = "gateway" /\ ~Has("requestid")
      /\ spec = Said /\ seen = {m.key : m \in Pairs} /\ pc' = "opts"
  BY DEF EndOfFile, FrontendInv, LayerInv, CheckInv, Goto
<1>2. spec' = FileMeans
  BY <1>1, EndIsMeant
<1>3. /\ FileMeans' = FileMeans /\ (WellWritten' <=> WellWritten)
      /\ (Has("requestid")' <=> Has("requestid"))
  BY Frame DEF EndOfFile
<1>4. LayerInv'
  BY <1>1, <1>2, <1>3 DEF LayerInv
<1>5. CheckInv'
  BY <1>1, <1>3 DEF CheckInv, EndOfFile
<1>6. file' \in Seq(Lines)
  BY DEF FrontendInv, EndOfFile
<1> QED
  BY <1>1, <1>4, <1>5, <1>6, GoesOn DEF EndOfFile

-----------------------------------------------------------------------------
(***************************************************************************)
(* Options and flags: from here on the Spec is what is meant.              *)
(***************************************************************************)
LEMMA StepApplyOpts == ASSUME FrontendInv, ApplyOpts PROVE FrontendInv'
<1>1. /\ pc = "opts" /\ WellWritten /\ via = "gateway" /\ ~Has("requestid")
      /\ spec = FileMeans /\ UNCHANGED <<via, opts, file, trouble, context>>
  BY DEF ApplyOpts, FrontendInv, LayerInv, CheckInv
<1>2. file' \in Seq(Lines)
  BY <1>1 DEF FrontendInv
<1>3. CASE OptsOK
  <2>1. spec' = Means /\ pc' = "validate" /\ UNCHANGED reply
    BY <1>1, <1>3, OptsAreMeant DEF ApplyOpts, Unless, Goto, Means
  <2>2. Accepted
    BY <1>1, <1>3 DEF Accepted
  <2>3. Means' = Means /\ (Accepted' <=> Accepted)
    BY <1>1, Frame
  <2>4. LayerInv' /\ CheckInv'
    BY <2>1, <2>2, <2>3 DEF LayerInv, CheckInv
  <2> QED
    BY <1>1, <1>2, <2>1, <2>4, GoesOn
<1>4. CASE ~OptsOK
  <2>1. Reply(Refused)
    BY <1>4 DEF ApplyOpts, Unless
  <2>2. ~Sensible'
    <3>1. ~Sensible
      BY <1>1, <1>4 DEF Sensible
    <3> QED
      BY <1>1, <3>1, Frame
  <2> QED
    BY <1>1, <1>2, <2>1, <2>2, Refuses
<1> QED
  BY <1>3, <1>4

LEMMA StepFlags == ASSUME FrontendInv, Flags PROVE FrontendInv'
<1>1. /\ pc = "start" /\ via = "kbuildctl" /\ spec = DefaultSpec
      /\ opts \in CtlFlags /\ UNCHANGED <<via, opts, file, trouble, context>>
  BY DEF Flags, FrontendInv, LayerInv
<1>2. file' \in Seq(Lines)
  BY <1>1 DEF FrontendInv
<1>3. spec' = Means
  <2>1. ~Has("source-url")
    BY <1>1, FrontendAssumption DEF Has
  <2> QED
    BY <1>1, <2>1, FlagsAreMeant DEF Flags, Means
<1>4. Means' = Means /\ (Accepted' <=> Accepted) /\ (Sensible' <=> Sensible)
  BY <1>1, Frame
<1>5. CASE Accepted
  <2>1. pc' = "validate" /\ UNCHANGED reply
    BY <1>1, <1>3, <1>5 DEF Accepted, Flags, Unless, Goto
  <2>2. LayerInv' /\ CheckInv'
    BY <1>3, <1>4, <1>5, <2>1 DEF LayerInv, CheckInv
  <2> QED
    BY <1>1, <1>2, <2>1, <2>2, GoesOn
<1>6. CASE ~Accepted
  <2>1. Reply(Refused)
    BY <1>1, <1>3, <1>6 DEF Accepted, Flags, Unless
  <2>2. ~Sensible
    BY <1>1, <1>6 DEF Accepted, Sensible
  <2> QED
    BY <1>1, <1>2, <1>4, <2>1, <2>2, Refuses
<1> QED
  BY <1>5, <1>6

-----------------------------------------------------------------------------
(***************************************************************************)
(* The checks.                                                             *)
(***************************************************************************)
LEMMA StepCheckSpec == ASSUME FrontendInv, CheckSpec PROVE FrontendInv'
<1>1. /\ pc = "validate" /\ via = "gateway" /\ spec = Means /\ Accepted
      /\ UNCHANGED <<via, opts, file, spec, trouble, context>>
  BY DEF CheckSpec, FrontendInv, CheckInv
<1>2. file' \in Seq(Lines)
  BY <1>1 DEF FrontendInv
<1>3. Means' = Means /\ (Sensible' <=> Sensible)
  BY <1>1, Frame
<1>4. Sensible <=> (spec.HelperRef # Unset /\ Validate(spec) /\ ImportsOK)
  BY <1>1 DEF Sensible, Accepted
<1>5. CASE Sensible
  <2>1. pc' = "resolve" /\ UNCHANGED reply
    BY <1>4, <1>5 DEF CheckSpec, Unless, Goto
  <2>2. LayerInv' /\ CheckInv'
    BY <1>1, <1>3, <1>5, <2>1 DEF LayerInv, CheckInv
  <2> QED
    BY <1>1, <1>2, <2>1, <2>2, GoesOn
<1>6. CASE ~Sensible
  <2>1. Reply(Refused)
    BY <1>4, <1>6 DEF CheckSpec, Unless
  <2> QED
    BY <1>1, <1>2, <1>3, <1>6, <2>1, Refuses
<1> QED
  BY <1>5, <1>6

LEMMA StepCheckDriver == ASSUME FrontendInv, CheckDriver PROVE FrontendInv'
<1>1. /\ pc = "validate" /\ via = "kbuildctl" /\ spec = Means /\ Accepted
      /\ UNCHANGED <<via, opts, file, spec, trouble>>
  BY DEF CheckDriver, FrontendInv, CheckInv
<1>2. file' \in Seq(Lines)
  BY <1>1 DEF FrontendInv
<1>3. Means' = Means /\ (Sensible' <=> Sensible) /\ (Accepted' <=> Accepted)
  BY <1>1, Frame
<1>4. spec.SeedPush => spec.SeedURL # Unset
  BY <1>1 DEF Accepted
<1>5. CASE Validate(spec) /\ InContext(spec, context'[1])
  <2>1. pc' = "attach" /\ UNCHANGED reply
    BY <1>4, <1>5 DEF CheckDriver, Unless, Goto
  <2>2. LayerInv' /\ CheckInv'
    BY <1>1, <1>3, <1>5, <2>1 DEF LayerInv, CheckInv
  <2> QED
    BY <1>1, <1>2, <2>1, <2>2, GoesOn
<1>6. CASE ~(Validate(spec) /\ InContext(spec, context'[1]))
  <2>1. Reply(Refused) /\ context' # <<>>
    BY <1>6 DEF CheckDriver, Unless
  <2>2. ~Validate(Means) => ~Sensible
    BY DEF Sensible
  <2>3. ~Sensible' \/ ~InContext(Means, context[1])'
    BY <1>1, <1>3, <1>6, <2>2
  <2> QED
    BY <1>1, <1>2, <2>1, <2>3, Refuses
<1> QED
  BY <1>5, <1>6

LEMMA StepAttach == ASSUME FrontendInv, Attach PROVE FrontendInv'
<1>1. /\ pc = "attach" /\ via = "kbuildctl" /\ spec = Means /\ Accepted
      /\ Validate(Means) /\ UNCHANGED <<via, opts, file, spec, trouble, context>>
  BY DEF Attach, FrontendInv, CheckInv
<1>2. file' \in Seq(Lines)
  BY <1>1 DEF FrontendInv
<1>3. Means' = Means /\ (Sensible' <=> Sensible)
  BY <1>1, Frame
<1>4. Sensible <=> (/\ spec.SeedURL # Unset => Has("credentials")
                    /\ \A i \in 1..Len(CacheEntries) : CacheEntries[i].type # Unset)
  BY <1>1 DEF Sensible, Accepted
<1>5. CASE Sensible
  <2>1. pc' = "resolve" /\ UNCHANGED reply
    BY <1>4, <1>5 DEF Attach, Unless, Goto
  <2>2. LayerInv' /\ CheckInv'
    BY <1>1, <1>3, <1>5, <2>1 DEF LayerInv, CheckInv
  <2> QED
    BY <1>1, <1>2, <2>1, <2>2, GoesOn
<1>6. CASE ~Sensible
  <2>1. Reply(Refused)
    BY <1>4, <1>6 DEF Attach, Unless
  <2> QED
    BY <1>1, <1>2, <1>3, <1>6, <2>1, Refuses
<1> QED
  BY <1>5, <1>6

-----------------------------------------------------------------------------
(***************************************************************************)
(* GatewaySolve.                                                           *)
(***************************************************************************)
LEMMA PinnedIsMeant ==
    ASSUME FrontendInv, Sensible, MeantPinned(spec)
    PROVE  Validate(spec) /\ \A c : InContext(spec, c) <=> InContext(Means, c)
<1>1. Validate(Means) /\ (via = "gateway" => WellWritten)
  BY DEF Sensible
<1>2. Means = [f \in SpecFields |-> Means[f]] /\ IsReference(Means.Base)
  BY <1>1, MeansShape DEF FrontendInv
<1>3. CASE Pinned(Means.Base)
  BY <1>1, <1>3 DEF MeantPinned
<1>4. CASE ~Pinned(Means.Base)
  <2>1. spec = [Means EXCEPT !.Base.digest = spec.Base.digest]
    BY <1>4 DEF MeantPinned
  <2> QED
    BY <1>1, <1>2, <2>1, PinKeeps
<1> QED
  BY <1>3, <1>4

LEMMA StepResolveBase == ASSUME FrontendInv, ResolveBase PROVE FrontendInv'
<1>1. /\ pc = "resolve" /\ spec = Means /\ Sensible
      /\ UNCHANGED <<via, opts, file, trouble, context>>
  BY DEF ResolveBase, FrontendInv, CheckInv
<1>2. file' \in Seq(Lines)
  BY <1>1 DEF FrontendInv
<1>3. Means' = Means /\ (Sensible' <=> Sensible)
  BY <1>1, Frame
<1>4. Validate(spec) /\ (via = "gateway" => WellWritten)
  BY <1>1 DEF Sensible
<1>5. pc' = "context" /\ UNCHANGED reply
  BY <1>4 DEF ResolveBase, Goto
<1>6. MeantPinned(spec)'
  <2>1. CASE Pinned(spec.Base)
    <3>1. spec' = spec
      BY <1>4, <2>1 DEF ResolveBase
    <3> QED
      BY <1>1, <1>3, <2>1, <3>1 DEF MeantPinned
  <2>2. CASE ~Pinned(spec.Base)
    <3>1. PICK d \in Digests : spec' = [spec EXCEPT !.Base.digest = d]
      BY <1>4, <2>2 DEF ResolveBase
    <3>2. Means = [f \in SpecFields |-> Means[f]] /\ IsReference(Means.Base)
      BY <1>4, MeansShape DEF FrontendInv
    <3>3. spec'.Base.digest = d
      <4>1. spec' = [Means EXCEPT !.Base.digest = d]
        BY <1>1, <3>1
      <4> QED
        BY <3>2, <4>1, PinKeeps
    <3>4. Pinned(spec'.Base)
      BY <3>3, FrontendAssumption DEF Pinned
    <3>5. spec' = [Means' EXCEPT !.Base.digest = spec'.Base.digest]
      BY <1>1, <1>3, <3>1, <3>3
    <3>6. ~Pinned(Means'.Base)
      BY <1>1, <1>3, <2>2
    <3> QED
      BY <3>4, <3>5, <3>6 DEF MeantPinned
  <2> QED
    BY <2>1, <2>2
<1>7. LayerInv' /\ CheckInv'
  BY <1>1, <1>3, <1>5, <1>6 DEF LayerInv, CheckInv
<1> QED
  BY <1>1, <1>2, <1>5, <1>7, GoesOn

LEMMA StepCheckContext == ASSUME FrontendInv, CheckContext PROVE FrontendInv'
<1>1. /\ pc = "context" /\ MeantPinned(spec) /\ Sensible
      /\ UNCHANGED <<via, opts, file, spec, trouble>>
  BY DEF CheckContext, FrontendInv, CheckInv
<1>2. file' \in Seq(Lines)
  BY <1>1 DEF FrontendInv
<1>3. Means' = Means /\ (Sensible' <=> Sensible)
  BY <1>1, Frame
<1>4. CASE InContext(spec, context'[1])
  <2>1. pc' = "graph" /\ UNCHANGED reply
    BY <1>4 DEF CheckContext, Unless, Goto
  <2>2. MeantPinned(spec)'
    BY <1>1, <1>3 DEF MeantPinned
  <2>3. LayerInv' /\ CheckInv'
    BY <1>1, <1>3, <1>4, <2>1, <2>2 DEF LayerInv, CheckInv
  <2> QED
    BY <1>1, <1>2, <2>1, <2>3, GoesOn
<1>5. CASE ~InContext(spec, context'[1])
  <2>1. Reply(Refused) /\ context' # <<>>
    BY <1>5 DEF CheckContext, Unless
  <2>2. ~InContext(Means, context[1])'
    BY <1>1, <1>3, <1>5, PinnedIsMeant
  <2> QED
    BY <1>1, <1>2, <2>1, <2>2, Refuses
<1> QED
  BY <1>4, <1>5

LEMMA StepSolveGraph == ASSUME FrontendInv, SolveGraph PROVE FrontendInv'
<1>1. /\ pc = "graph" /\ MeantPinned(spec) /\ Sensible /\ InContext(spec, context[1])
      /\ UNCHANGED <<via, opts, file, spec, trouble, context>> /\ ~trouble
  BY DEF SolveGraph, FrontendInv, CheckInv
<1>2. file' \in Seq(Lines)
  BY <1>1 DEF FrontendInv
<1>3. Means' = Means /\ (Sensible' <=> Sensible)
  BY <1>1, Frame
<1>4. Validate(spec) /\ Pinned(spec.Base)
  BY <1>1, PinnedIsMeant DEF MeantPinned
<1>5. pc' = "done" /\ reply'.kind = "solve" /\ reply'.spec = spec
  BY <1>4 DEF SolveGraph, Reply, Solve
<1>6. BuildsWhatIsAsked'
  BY <1>1, <1>3, <1>5 DEF BuildsWhatIsAsked, MeantPinned
<1>7. RefusedForCause'
  BY <1>5 DEF RefusedForCause
<1> QED
  BY <1>1, <1>2, <1>5, <1>6, <1>7, EndsWell

LEMMA StepStutter == ASSUME FrontendInv, UNCHANGED vars PROVE FrontendInv'
<1>1. UNCHANGED <<pc, via, opts, file, seen, spec, trouble, context, reply>>
  BY DEF vars
<1>2. /\ Pairs' = Pairs /\ Said' = Said /\ FileMeans' = FileMeans /\ Means' = Means
      /\ (WellWritten' <=> WellWritten) /\ (Sensible' <=> Sensible)
      /\ (Accepted' <=> Accepted) /\ (Has("requestid")' <=> Has("requestid"))
  BY <1>1, Frame
<1>3. LayerInv'
  BY <1>1, <1>2 DEF FrontendInv, LayerInv
<1>4. CheckInv'
  BY <1>1, <1>2 DEF FrontendInv, CheckInv, MeantPinned
<1>5. BuildsWhatIsAsked'
  BY <1>1, <1>2 DEF FrontendInv, BuildsWhatIsAsked
<1>6. RefusedForCause'
  BY <1>1, <1>2 DEF FrontendInv, RefusedForCause
<1> QED
  BY <1>1, <1>3, <1>4, <1>5, <1>6 DEF FrontendInv

-----------------------------------------------------------------------------
(***************************************************************************)
(* The theorems.                                                           *)
(***************************************************************************)
\* Reading a Kernelfile line by line, deciding URL and pin at its end, laying
\* the options or the flags over it and pinning the base amount, at every
\* location, to what the invocation means; so do the checks on the way.
THEOREM FrontendInvariant == Spec => []FrontendInv
<1>1. Init => FrontendInv
  <2> SUFFICES ASSUME Init PROVE FrontendInv
    OBVIOUS
  <2>1. pc = "start" /\ file = <<>> /\ seen = {} /\ spec = DefaultSpec
    BY DEF Init
  <2>2. LayerInv /\ CheckInv
    BY <2>1 DEF LayerInv, CheckInv
  <2>3. reply.kind = "none"
    BY DEF Init, NoReply
  <2>4. BuildsWhatIsAsked /\ RefusedForCause
    BY <2>3 DEF BuildsWhatIsAsked, RefusedForCause
  <2> QED
    BY <2>1, <2>2, <2>4 DEF FrontendInv, Init
<1>2. FrontendInv /\ [Next]_vars => FrontendInv'
  <2> SUFFICES ASSUME FrontendInv, [Next]_vars PROVE FrontendInv'
    OBVIOUS
  <2>1. CASE Subrequest
    BY <2>1, StepSubrequest
  <2>2. CASE BuildRequest
    BY <2>2, StepBuildRequest
  <2>3. CASE FetchFails \/ ScanFails \/ ResolveFails \/ CheckContextFails
    BY <2>3, StepFails
  <2>4. CASE Fetched
    BY <2>4, StepFetched
  <2>5. CASE ScanLine
    BY <2>5, StepScanLine
  <2>6. CASE EndOfFile
    BY <2>6, StepEndOfFile
  <2>7. CASE ApplyOpts
    BY <2>7, StepApplyOpts
  <2>8. CASE CheckSpec
    BY <2>8, StepCheckSpec
  <2>9. CASE Flags
    BY <2>9, StepFlags
  <2>10. CASE CheckDriver
    BY <2>10, StepCheckDriver
  <2>11. CASE Attach
    BY <2>11, StepAttach
  <2>12. CASE ResolveBase
    BY <2>12, StepResolveBase
  <2>13. CASE CheckContext
    BY <2>13, StepCheckContext
  <2>14. CASE SolveGraph
    BY <2>14, StepSolveGraph
  <2>15. CASE Done \/ UNCHANGED vars
    BY <2>15, StepStutter DEF Done
  <2> QED
    BY <2>1, <2>2, <2>3, <2>4, <2>5, <2>6, <2>7, <2>8, <2>9, <2>10, <2>11, <2>12,
       <2>13, <2>14, <2>15 DEF Next, ParseKernelfile, GatewaySolve
<1> QED
  BY <1>1, <1>2, PTL DEF Spec

\* What is solved is what the invocation means, for files of every length:
\* the order of the lines and the layering of file, options and flags never
\* show, and no failed call turns into a build of the defaults.
THEOREM AskedIsBuilt == Spec => []BuildsWhatIsAsked
<1>1. FrontendInv => BuildsWhatIsAsked
  BY DEF FrontendInv
<1> QED
  BY <1>1, FrontendInvariant, PTL

\* What is refused makes no sense, lacks a file, or met a failed call.
THEOREM RefusalsHaveCause == Spec => []RefusedForCause
<1>1. FrontendInv => RefusedForCause
  BY DEF FrontendInv
<1> QED
  BY <1>1, FrontendInvariant, PTL

\* No sum is solved with a URL that it was not given for: applyOpts and
\* ParseKernelfile drop it whenever they change the source.
THEOREM PinsFit == Spec => []PinFits
<1>1. BuildsWhatIsAsked => PinFits
  <2> SUFFICES ASSUME BuildsWhatIsAsked, reply.kind = "solve",
                      reply.spec.SourceSHA256 # Unset,
                      ~Has("source-sha256"), ~Has("sha256")
               PROVE  \/ /\ FileSays("SHA256")
                         /\ reply.spec.SourceSHA256 = FileValue("SHA256")
                         /\ reply.spec.SourceURL = FileMeans.SourceURL
                      \/ /\ reply.spec.SourceSHA256 = DefaultSpec.SourceSHA256
                         /\ reply.spec.SourceURL = DefaultSpec.SourceURL
    BY DEF PinFits
  <2>1. {"SourceURL", "SourceSHA256"} \subseteq SpecFields
    BY FieldsAre
  <2>2. Means = [f \in SpecFields |-> Means[f]]
    BY DEF Means, GatewayMeans, CtlMeans, SpecFields
  <2>3. /\ reply.spec.SourceSHA256 = Means.SourceSHA256
        /\ reply.spec.SourceURL = Means.SourceURL
    <3>1. CASE Pinned(Means.Base)
      BY <3>1 DEF BuildsWhatIsAsked
    <3>2. CASE ~Pinned(Means.Base)
      <4>1. PICK b : reply.spec = [Means EXCEPT !.Base = b]
        BY <3>2 DEF BuildsWhatIsAsked
      <4>2. reply.spec = [f \in SpecFields |-> IF f = "Base" THEN b ELSE Means[f]]
        BY <2>2, <4>1, Assigned
      <4> QED
        BY <2>1, <4>2
    <3> QED
      BY <3>1, <3>2
  <2>4. CASE via = "gateway"
    <3> DEFINE nv == Has("kernel-version")
                       /\ opts["kernel-version"] # FileMeans.KernelVersion
               src == SourceMeans(FileMeans, nv, "source-sha256")
    <3>1. Means.SourceSHA256 = src.SourceSHA256 /\ Means.SourceURL = src.SourceURL
      BY <2>1, <2>4 DEF Means, GatewayMeans, SourceMeans, SpecFields
    <3>2. /\ src.SourceSHA256 = IF nv \/ src.SourceURL # FileMeans.SourceURL THEN Unset
                                ELSE FileMeans.SourceSHA256
      BY DEF SourceMeans
    <3>3. /\ src.SourceURL = FileMeans.SourceURL
          /\ src.SourceSHA256 = FileMeans.SourceSHA256
      <4> HIDE DEF nv, src
      <4> QED
        BY <2>3, <3>1, <3>2
    <3>4. /\ FileMeans.SourceSHA256 =
               IF FileSays("SHA256") THEN FileValue("SHA256")
               ELSE IF FileSays("KERNEL") \/ FileSays("SOURCE_URL") THEN Unset
               ELSE DefaultSpec.SourceSHA256
          /\ ~(FileSays("KERNEL") \/ FileSays("SOURCE_URL")) =>
               FileMeans.SourceURL = DefaultSpec.SourceURL
      BY <2>1, FileKeyIs DEF FileMeans, SpecFields
    <3> HIDE DEF src
    <3> QED
      BY <2>3, <3>1, <3>3, <3>4
  <2>5. CASE via # "gateway"
    <3> DEFINE src == SourceMeans(DefaultSpec, Has("kernel-version"), "sha256")
    <3>1. Means.SourceSHA256 = src.SourceSHA256 /\ Means.SourceURL = src.SourceURL
      BY <2>1, <2>5 DEF Means, CtlMeans, SourceMeans, SpecFields
    <3>2. src.SourceSHA256 =
            IF Has("kernel-version") \/ src.SourceURL # DefaultSpec.SourceURL THEN Unset
            ELSE DefaultSpec.SourceSHA256
      BY DEF SourceMeans
    <3> HIDE DEF src
    <3> QED
      BY <2>3, <3>1, <3>2
  <2> QED
    BY <2>4, <2>5
<1> QED
  BY <1>1, AskedIsBuilt, PTL
=============================================================================

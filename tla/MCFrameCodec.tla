---------------------------- MODULE MCFrameCodec ----------------------------
(* Scripts of two frames: each frame of interest, then one whose loss or    *)
(* damage shows that the reader is not where the first one ended.           *)
EXTENDS FrameCodec

Listed(S) == FoldSet(LAMBDA x, seq : Append(seq, x), <<>>, S)

MCContent == {"name", "text", "other", "float", "double"}
MCHalf32 == 8          \* an int32 is in -8 .. 7, an int may be more

Short(n) == IF n = 0 THEN <<"none", 0>> ELSE <<"name", n>>
Long(n) == <<"text", n>>
Table1(key, field) == [k \in {key} |-> field]

(* Fields of every Go type, at the ends of their ranges where writing or    *)
(* reading could tell them apart, and one of a type that is not supported.  *)
Leaves == <<
  <<"bool", TRUE>>, <<"bool", FALSE>>, <<"byte", 255>>, <<"int16", -1>>,
  <<"int", 7>>, <<"int", 8>>, <<"int", -9>>, <<"int32", -8>>, <<"int64", -8>>,
  <<"float32", "float">>, <<"float64", "double">>, <<"Decimal", <<2, -1>>>>,
  <<"string", <<"none", 0>>>>, <<"string", Long(300)>>, <<"bytes", <<"none", 0>>>>,
  <<"bytes", Long(1)>>, <<"Time", <<5, 0>>>>, <<"Time", <<5, 7>>>>,
  <<"nil", 0>> >>
Unsupported == <<"uint", 1>>
Nested == <<
  <<"array", <<>>>>, <<"array", <<Leaves[1], Leaves[13]>>>>,
  <<"array", <<Leaves[19], <<"Table", <<>>>>, <<"array", <<>>>>>>>>,
  <<"array", <<<<"Table", Table1(Short(1), Leaves[6])>>, Leaves[2]>>>>,
  <<"Table", <<>>>>,
  <<"Table", Table1(Short(255), <<"array", <<Leaves[14], Leaves[15]>>>>)>>,
  Unsupported, <<"array", <<Leaves[1], Unsupported>>>>,
  <<"Table", Table1(Short(1), Unsupported)>> >>
FieldList == Leaves \o Nested

Other == <<"Table", Table1(<<"other", 1>>, <<"nil", 0>>)>>
Tables2 ==
  [i \in DOMAIN FieldList |->
     [k \in {Short(1), Short(256)} |-> IF k = Short(1) THEN FieldList[i] ELSE Other]]
  \o << [k \in {Short(0), Short(256), Short(1)} |-> <<"byte", k[2] % 256>>],
        [k \in {Short(1), Short(257)} |-> <<"int64", k[2]>>] >>

(* The fields of these tables, those inside one before it.                  *)
RECURSIVE FromInside(_)
FromInside(f) ==
  (CASE f[1] = "array" -> FlattenSeq([i \in DOMAIN f[2] |-> FromInside(f[2][i])])
     [] f[1] = "Table" ->
          LET keys == Listed(DOMAIN f[2])
          IN  FlattenSeq([i \in DOMAIN keys |-> FromInside(f[2][keys[i]])])
     [] OTHER -> <<>>) \o <<f>>
MCFields == FlattenSeq([i \in DOMAIN Tables2 |-> FromInside(<<"Table", Tables2[i]>>)])

\* Three ways to fill in the arguments that are no flags.
Fill(kind, i) ==
  CASE kind = "octet"    -> <<0, 1, 255>>[i]
    [] kind = "short"    -> <<0, 1, 65535>>[i]
    [] kind \in {"long", "longlong"} -> <<0, 256, 2147483647>>[i]
    [] kind = "shortstr" -> <<<<"none", 0>>, Short(255), Short(257)>>[i]
    [] kind = "longstr"  -> <<<<"none", 0>>, Long(256), Long(65536)>>[i]
    [] kind = "table"    -> <<<<>>, Tables2[1], Tables2[14]>>[i]
    [] kind = "timestamp" -> <<ZeroTime, <<0, 0>>, <<9, 1>>>>[i]

FlagSets(m) ==
  LET n == {FlagsIn[m.args[i]] : i \in {j \in DOMAIN m.args : m.args[j] \in DOMAIN FlagsIn}}
  IN  IF n = {} THEN {<<>>} ELSE UNION {[1 .. k -> BOOLEAN] : k \in n}

AMethod(m, flags, i) ==
  [kind |-> "method", channel |-> i, method |-> m,
   args |-> [j \in DOMAIN m.args |->
               IF m.args[j] \in DOMAIN FlagsIn THEN flags ELSE Fill(m.args[j], i)]]
AStart(table) ==
  [kind |-> "method", channel |-> 0, method |-> connectionStart,
   args |-> <<0, 9, table, Long(1), <<"none", 0>>>>]
AHeader(set, i, headers) ==
  [kind |-> "header", channel |-> 65535, class |-> 60, weight |-> 0,
   size |-> 2147483647,
   props |-> [name \in DOMAIN NoProperties |->
     LET j == CHOOSE j \in DOMAIN Properties : Properties[j].name = name
     IN  IF name = "Headers" /\ headers # <<>> THEN headers
         ELSE IF j \in set THEN Fill(Properties[j].kind, i) ELSE NoProperties[name]]]
ABody(n) == [kind |-> "body", channel |-> 1, body |-> IF n = 0 THEN <<"none", 0>> ELSE Long(n)]
AHeartbeat == [kind |-> "heartbeat", channel |-> 0]

MethodFrames ==
  FlattenSeq([j \in 1 .. Cardinality(Methods) |->
    LET m == Listed(Methods)[j]
        flags == Listed(FlagSets(m))
    IN  [k \in 1 .. 3 * Len(flags) |->
           AMethod(m, flags[((k - 1) \div 3) + 1], ((k - 1) % 3) + 1)]])
TableFrames == [i \in DOMAIN Tables2 |-> AStart(Tables2[i])]
HeaderSets == Listed({s \in SUBSET (1 .. 13) : Cardinality(s) \in {0, 1, 2, 13}})
HeaderFrames ==
  [i \in DOMAIN HeaderSets |-> AHeader(HeaderSets[i], 2, <<>>)] \o
  [i \in DOMAIN HeaderSets |-> AHeader(HeaderSets[i], 3, <<>>)] \o
  [i \in DOMAIN Tables2 |-> AHeader({1, 4}, 2, Tables2[i])]

MCScripts ==
  LET first == MethodFrames \o TableFrames \o HeaderFrames \o
               <<ABody(0), ABody(300), AHeartbeat>>
  IN  [i \in DOMAIN first |->
         <<first[i], IF i % 2 = 0 THEN AHeartbeat ELSE ABody(5)>>]
=============================================================================

------------------------------ MODULE PoolAttr ------------------------------
(***************************************************************************)
(* The attribution of a block to a pool (internal/poolattr): from what its *)
(* coinbase carries to the tag that is stored in blocks.pool_tag.          *)
(*                                                                         *)
(* The bytes of a coinbase extra are a sequence of units: the words that   *)
(* the tables know, and single characters and bytes.  A prefix of bytes is *)
(* a prefix of units, since no known word begins another.                  *)
(***************************************************************************)
EXTENDS Integers, Sequences, FiniteSets, SequencesExt

\* Units that are not words of the tables: "a" is an ASCII character, "rune" a
\* character of two bytes, "ctl" a control character, "NUL" the byte 0, "bad" a byte
\* that is not UTF-8, "U+FFFD" what takes its place, and "cut" the first byte of a
\* character that was cut in two.

\* Bytes per unit, where the length of a tag matters.
Width(unit) ==
  CASE unit \in {"GCPOOL-SOLO", "supportxtm-"}         -> 11
    [] unit = "Jagtech"                                -> 7
    [] unit = "-pplns"                                 -> 6
    [] unit \in {"sha3x", "-solo"}                     -> 5
    [] unit \in {"WUF", "c29", "rxt", "rxm", "U+FFFD"} -> 3
    [] unit = "rune"                                   -> 2
    [] OTHER                                           -> 1

\* The bytes up to the end of the i-th unit.
EndOf(s, i) ==
  LET end[k \in 0 .. i] == IF k = 0 THEN 0 ELSE end[k - 1] + Width(s[k]) IN end[i]

-----------------------------------------------------------------------------
Algos == {"RXM", "RXT", "C29", "SHA3X"}

AlgoFromRawStrict(raw) ==   \* mutant: ids that are not known have no column
  CASE raw = 0 -> "RXM" [] raw = 1 -> "SHA3X" [] raw = 2 -> "RXT" [] raw = 3 -> "C29"
    [] OTHER -> "OTHER"

AlgoFromRaw(raw) ==
  CASE raw = 0 -> "RXM" [] raw = 2 -> "RXT" [] raw = 3 -> "C29" [] OTHER -> "SHA3X"

-----------------------------------------------------------------------------
OwnTag(prefix, tagLen, canonicalName) ==
  [prefix |-> prefix, tagLen |-> tagLen, canonicalName |-> canonicalName]

\* The rows of one algorithm; tagLen 0 keeps the tag as it is.
SupportXTM(algo, tagLen) ==
  << OwnTag(<<"supportxtm-", algo, "-pplns">>, 0, <<"SupportXTM">>),
     OwnTag(<<"supportxtm-", algo, "-solo">>, 0, <<"SupportXTM">>),
     OwnTag(<<"supportxtm-", algo>>, tagLen, <<"SupportXTM">>) >>

OwnPoolTagsShortestFirst ==   \* mutant: the bare tag before its variants
  << OwnTag(<<"WUF">>, 12, <<"Jagtech">>), OwnTag(<<"Jagtech">>, 9, <<"Jagtech">>) >>
  \o Reverse(SupportXTM("sha3x", 16)) \o Reverse(SupportXTM("c29", 14))
  \o Reverse(SupportXTM("rxt", 14)) \o Reverse(SupportXTM("rxm", 14))
  \o << OwnTag(<<"GCPOOL-SOLO">>, 11, <<"SupportXTM">>) >>

\* The first row that matches counts.
ownPoolTags ==
  << OwnTag(<<"WUF">>, 12, <<"Jagtech">>), OwnTag(<<"Jagtech">>, 9, <<"Jagtech">>) >>
  \o SupportXTM("sha3x", 16) \o SupportXTM("c29", 14)
  \o SupportXTM("rxt", 14) \o SupportXTM("rxm", 14)
  \o << OwnTag(<<"GCPOOL-SOLO">>, 11, <<"SupportXTM">>) >>

\* Other pools, by the word their extras begin with.
prefixTable ==
  [word \in {"/pool.kryptex.com/", "H9.com.", "hash2coin", "DxPool_tari", "dxpool_tari",
             "c3pool_merge_mining_proxy", "supportxmr.com_mm_proxy", "tari_merge_mining_proxy",
             "xmr-pool", "RXLuckyPool", "LuckyPool", "solo test"} |->
     CASE word = "/pool.kryptex.com/" -> "pool.kryptex.com"
       [] word = "H9.com."            -> "H9.com"
       [] OTHER                       -> word]

-----------------------------------------------------------------------------
\* strings.Map: the units in drop are left out, and U+FFFD is written for a byte that
\* is not UTF-8, which is kept otherwise.
Mapped(s, drop) ==
  LET kept[i \in 0 .. Len(s)] ==
        IF i = 0 THEN <<>>
        ELSE IF s[i] \in drop THEN kept[i - 1]
        ELSE Append(kept[i - 1], IF s[i] = "bad" THEN "U+FFFD" ELSE s[i])
  IN  kept[Len(s)]

printableOnly(s) == Mapped(s, {"NUL", "ctl"})

AsStored(s) == s   \* mutant: no filter

asciiPrintableOnly(s) == Mapped(s, {"NUL", "ctl", "bad", "rune", "U+FFFD"})

\* The first n bytes of a unit: of a word they are characters, of a character they
\* are no text.
Cut(unit, n) == IF unit \in {"rune", "U+FFFD"} THEN <<"cut">> ELSE [i \in 1 .. n |-> "a"]

\* s[:n] counts bytes, whatever they belong to.
truncatePoolTag(s, n) ==
  IF EndOf(s, Len(s)) <= n THEN s
  ELSE LET whole == CHOOSE i \in 0 .. Len(s) - 1 : EndOf(s, i) <= n /\ n < EndOf(s, i + 1)
           rest  == n - EndOf(s, whole)
       IN  SubSeq(s, 1, whole) \o (IF rest = 0 THEN <<>> ELSE Cut(s[whole + 1], rest))

FirstNUL(s) == SelectInSeq(s, LAMBDA unit : unit = "NUL")   \* 0: there is none

\* What the tables are matched with, and what an own pool's tag is cut from.
MatchBytes(s) == IF FirstNUL(s) = 0 THEN s ELSE SubSeq(s, 1, FirstNUL(s) - 1)
TruncBase(s)  == IF FirstNUL(s) = 0 THEN printableOnly(s) ELSE MatchBytes(s)

OwnRow(s) == SelectInSeq(ownPoolTags, LAMBDA row : IsPrefix(row.prefix, MatchBytes(s)))

OwnPoolTag(s, row) ==
  IF row.tagLen > 0 THEN truncatePoolTag(TruncBase(s), row.tagLen) ELSE TruncBase(s)

NULL == <<>>   \* no tag, nor any string that is stored, is empty

attributeExtra(s) ==
  CASE OwnRow(s) # 0 ->
         [poolTag |-> OwnPoolTag(s, ownPoolTags[OwnRow(s)]), isOwnPool |-> TRUE, reason |-> "ok"]
    [] OwnRow(s) = 0 /\ MatchBytes(s) # <<>> /\ MatchBytes(s)[1] \in DOMAIN prefixTable ->
         [poolTag |-> <<prefixTable[MatchBytes(s)[1]]>>, isOwnPool |-> FALSE, reason |-> "ok"]
    [] OTHER ->
         [poolTag |-> asciiPrintableOnly(s), isOwnPool |-> FALSE, reason |-> "unknown_tx_extra"]

\* coinbase: what the block has of outputs, of a coinbase and of its features.
Attribute(coinbase, extra) ==
  CASE coinbase # "present" -> [poolTag |-> NULL, isOwnPool |-> FALSE, reason |-> coinbase]
    [] coinbase = "present" /\ extra = <<>> ->
         [poolTag |-> NULL, isOwnPool |-> FALSE, reason |-> "empty_tx_extra"]
    [] OTHER -> attributeExtra(extra)

-----------------------------------------------------------------------------
\* The wire format of the own pools' binaries: a tag of theirs, the byte 0, and a
\* random suffix.
BaseTags ==
  {<<"supportxtm-", algo>> \o variant : algo \in {"sha3x", "c29", "rxt", "rxm"},
                                        variant \in {<<>>, <<"-pplns">>, <<"-solo">>}}
  \cup {<<"Jagtech", "a", "a">>, <<"WUF", "Jagtech", "a", "a">>, <<"GCPOOL-SOLO">>}

IsWireFormat(s) == FirstNUL(s) # 0 /\ MatchBytes(s) \in BaseTags

\* What PostgreSQL takes as text.
IsText(tag) == \A i \in DOMAIN tag : tag[i] \notin {"NUL", "bad", "cut"}
=============================================================================

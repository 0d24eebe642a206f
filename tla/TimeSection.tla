----------------------------- MODULE TimeSection -----------------------------
(***************************************************************************)
(* The trading sections of a product (CTimesection).  A time is a number   *)
(* HHMMSS; a time before the clearing of the day belongs to the trading    *)
(* day that began the evening before and is written with 24 hours added,   *)
(* so that the times of one trading day are ordered as numbers.            *)
(***************************************************************************)
EXTENDS Integers, Sequences, FiniteSetsExt

CONSTANTS
  SectionConfig,   \* for each configured product its sections <<begin, end>>, in order
  ClearTime        \* m_nClearTime: the trading day ends here

HHMMSS == {h * 10000 + m * 100 + s : h \in 0 .. 23, m \in 0 .. 59, s \in 0 .. 59}

ASSUME SectionsAssumption ==
  \A p \in DOMAIN SectionConfig : SectionConfig[p] \in Seq(HHMMSS \X HHMMSS)
ASSUME ClearTimeAssumption == ClearTime \in HHMMSS

-----------------------------------------------------------------------------
NormalizeTime(t) == IF t < ClearTime THEN t + 240000 ELSE t

inner_HHMMSS2Second(t) == (t \div 10000) * 3600 + ((t % 10000) \div 100) * 60 + (t % 100)
inner_Second2HHMMSS(s) == (s \div 3600) * 10000 + ((s % 3600) \div 60) * 100 + (s % 60)

Sections(p) == [i \in DOMAIN SectionConfig[p] |->
                  [begin |-> NormalizeTime(SectionConfig[p][i][1]),
                   end   |-> NormalizeTime(SectionConfig[p][i][2])]]

(* The sections stand in the configuration in the order of the trading day: *)
(* all the loops over them rely on it.                                     *)
ASSUME OrderAssumption ==
  \A p \in DOMAIN SectionConfig : \A i, j \in DOMAIN SectionConfig[p] :
     /\ Sections(p)[i].begin < Sections(p)[i].end
     /\ i < j => Sections(p)[i].end <= Sections(p)[j].begin

Length(sec) == inner_HHMMSS2Second(sec.end) - inner_HHMMSS2Second(sec.begin)

isExpectTime(now, begin, end) ==
  /\ NormalizeTime(begin) <= NormalizeTime(end)
  /\ NormalizeTime(now) < NormalizeTime(end)

-----------------------------------------------------------------------------
(* The part of an order's time that lies in sections of its product: from  *)
(* the first section that has not ended at its begin to the last one that  *)
(* has begun at its end.                                                   *)
NoPart == [ok |-> FALSE, start |-> -1, end |-> -1, startNo |-> -1, endNo |-> -1]

isInSection(now, p, beginTime, endTime) ==
  LET secs  == Sections(p)
      begin == Max({NormalizeTime(beginTime), NormalizeTime(now)})
      end   == NormalizeTime(endTime)
      open  == {i \in DOMAIN secs : begin < secs[i].end \/ begin <= secs[i].begin}
      begun == {i \in DOMAIN secs : end >= secs[i].end \/ end > secs[i].begin}
      part  == LET s == Min(open)  e == Max(begun)
               IN [ok |-> TRUE, startNo |-> s, endNo |-> e,
                   start |-> Max({begin, secs[s].begin}),
                   end   |-> Min({end, secs[e].end})]
  IN IF /\ p \in DOMAIN SectionConfig
        /\ open # {} /\ begun # {}
        /\ part.start < part.end
     THEN part ELSE NoPart

(* Of getTotalSecond: the breaks count as well. *)
getTotalSecondWithBreaks(p, part) == inner_HHMMSS2Second(part.end) - inner_HHMMSS2Second(part.start)

getTotalSecond(p, part) ==
  LET secs == Sections(p)
      From(i) == IF i = part.startNo THEN part.start ELSE secs[i].begin
      To(i)   == IF i = part.endNo THEN part.end ELSE secs[i].end
  IN MapThenSumSet(LAMBDA i : inner_HHMMSS2Second(To(i)) - inner_HHMMSS2Second(From(i)),
                   part.startNo .. part.endNo)

Never == 480000     \* later than any time of a trading day

(* Of getStandardTime: the break between two sections counts as trading. *)
getStandardTimeThroughBreaks(p, begintime, gap) ==
  inner_Second2HHMMSS(inner_HHMMSS2Second(begintime) + gap)

(* The time that lies gap seconds of trading after begintime *)
getStandardTime(p, begintime, gap) ==
  LET secs   == Sections(p)
      this   == {i \in DOMAIN secs : secs[i].begin <= begintime /\ begintime <= secs[i].end}
      first  == Min(this)
      expect == inner_Second2HHMMSS(inner_HHMMSS2Second(begintime) + gap)
      Left(i) == inner_HHMMSS2Second(expect) - inner_HHMMSS2Second(secs[first].end)
                 - MapThenSumSet(LAMBDA j : Length(secs[j]), first + 1 .. i - 1)
      fits   == {i \in DOMAIN secs : i > first /\ Length(secs[i]) >= Left(i)}
      next   == Min(fits)
  IN IF this = {} THEN Never
     ELSE IF expect <= secs[first].end THEN expect
     ELSE IF fits = {} THEN Never
     ELSE inner_Second2HHMMSS(inner_HHMMSS2Second(secs[next].begin) + Left(next))

-----------------------------------------------------------------------------
(* Reference: the seconds of trading of product p before time t. *)
TradingSecond(p, t) ==
  LET secs == Sections(p)
      Part(sec) == Max({0, inner_HHMMSS2Second(Min({t, sec.end})) - inner_HHMMSS2Second(sec.begin)})
  IN MapThenSumSet(LAMBDA i : Part(secs[i]), DOMAIN secs)
=============================================================================

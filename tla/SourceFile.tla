---------------------------- MODULE SourceFile -----------------------------
(***************************************************************************)
(* psystem_read_source of src/src/sources.c: at every switch of epoch the  *)
(* sources are read again from the files the epoch names.  Each file is    *)
(* read line by line by a stage machine, that of version 2 first, which    *)
(* hands over to that of version 1 when the first line has one field only. *)
(* A line is a record of what sscanf finds in it, a place, a direction or  *)
(* a luminosity one integer.  Sources, samples and files count from 1.     *)
(***************************************************************************)
EXTENDS Integers, Sequences, SequencesExt

CONSTANTS
  SourceLists, \* the lists of source files an epoch may name
  NEpochs,
  Spectra,    \* the names spec_get knows
  EpochAge, TickTime,  \* of an epoch, in the unit of time
  Age,        \* Age[z]: z2t
  Inverse1p,  \* Inverse1p[a]: 1 / (1 + a), as a redshift
  Myr,        \* [num, den]: U_MYR is num / den
  BoxSize, Boost,
  PiR2,       \* PiR2[radius]: the area of a plane source
  PerLum,     \* photons of one solar luminosity
  None        \* a field the line does not have, or memory nothing was written to

(* What somebody wrote: the number of sources the first line declares, how *)
(* times and places are given, and each source with its samples; n is the  *)
(* number of samples its first line declares.                              *)
Sample == [time : Nat, pos : Int, dir : Int, L : Int]
Described == [n : Nat, spec : STRING, type : STRING, radius : Nat \cup {None},
              samples : Seq(Sample)]
File == [version : {0, 1, 2}, declared : Nat, timefmt : STRING, locationfmt : STRING,
         comments : BOOLEAN, sources : Seq(Described)]

ASSUME SourceFileAssumption ==
  /\ SourceLists \subseteq Seq(File) /\ NEpochs \in Nat \ {0}
  /\ \A l \in SourceLists : \A k \in 1..Len(l) :
       /\ l[k].version = 0 => l[k].declared = 0 /\ l[k].sources = <<>>
       /\ \A d \in 1..Len(l[k].sources) :
            /\ l[k].version = 1 => Len(l[k].sources[d].samples) = 1
            /\ l[k].sources[d].radius # None => PiR2[l[k].sources[d].radius] \in Int
  /\ EpochAge \in [1..NEpochs -> Nat] /\ TickTime \in [1..NEpochs -> Nat \ {0}]
  /\ DOMAIN Inverse1p \subseteq Nat
  /\ Myr.num \in Nat \ {0} /\ Myr.den \in Nat \ {0}
  /\ BoxSize \in Nat /\ Boost \in Nat /\ PerLum \in Nat
  /\ None \notin Int /\ None # "plane"

(* The lines of a file.  A file of version 0 is empty.                     *)
OldLines(d) == <<[kind |-> "source", d |-> d, at |-> d.samples[1]]>>
NewLines(d) ==
  <<[kind |-> "series", d |-> d]>> \o
  [k \in 1..Len(d.samples) |-> [kind |-> "sample", at |-> d.samples[k]]]
Commented(file, lines) ==
  IF file.comments THEN <<[kind |-> "comment"]>> \o lines ELSE lines
Lines(file) ==
  CASE file.version = 0 -> Commented(file, <<>>)
    [] file.version = 1 ->
         Commented(file, <<[kind |-> "count"]>>)
           \o FlattenSeq([k \in 1..Len(file.sources) |->
                            Commented(file, OldLines(file.sources[k]))])
    [] file.version = 2 ->
         Commented(file, <<[kind |-> "head"]>>)
           \o FlattenSeq([k \in 1..Len(file.sources) |->
                            Commented(file, NewLines(file.sources[k]))])

VARIABLES
  phase,     \* "files" between two files, "read" in one; then how it ended
  epoch, files,
  ifile,     \* the file psystem_read_source is at
  version,   \* the parser that reads it
  rest,      \* its lines not yet read
  stage, isrc, isample, Nsamples,
  timefmt, locationfmt,
  srcs       \* psys.srcs, of length psys.nsrcs

local == <<version, rest, stage, isrc, isample, Nsamples, timefmt, locationfmt>>
source_vars == <<phase, epoch, files, ifile, local, srcs>>

(* A slot of psys.srcs that realloc has just provided.                     *)
Slot == [type |-> None, radius |-> None, pos |-> None, dir |-> None, basis |-> None,
         lastemit |-> None, cursor |-> None, ticks |-> <<>>, Ngamma_dots |-> <<>>]

SourceInit ==
  /\ phase = "files" /\ epoch = 1 /\ files \in SourceLists
  /\ ifile = 1 /\ srcs = <<>>
  /\ version = 2 /\ rest = <<>> /\ stage = 0
  /\ isrc = 1 /\ isample = 1 /\ Nsamples = 0 /\ timefmt = 0 /\ locationfmt = 0

-----------------------------------------------------------------------------
(* The variables of a parser as it starts; Nsamples and isample are not    *)
(* used before they are set.                                               *)
Call(v, lines) ==
  /\ version' = v /\ rest' = lines /\ stage' = 0
  /\ isrc' = 1 /\ isample' = 1 /\ Nsamples' = 0 /\ timefmt' = 0 /\ locationfmt' = 0

OpenFile ==
  /\ phase = "files" /\ ifile <= Len(files)
  /\ phase' = "read" /\ Call(2, Lines(files[ifile]))
  /\ UNCHANGED <<epoch, files, ifile, srcs>>

LastStage == IF version = 1 THEN 2 ELSE 3
AtLine(kind) == phase = "read" /\ stage < LastStage /\ rest # <<>> /\ Head(rest).kind = kind
NextLine == rest' = Tail(rest)
Error == phase' = "error" /\ UNCHANGED <<epoch, files, ifile, local, srcs>>

Comment ==
  /\ AtLine("comment")
  /\ NextLine
  /\ UNCHANGED <<phase, epoch, files, ifile, version, stage, isrc, isample, Nsamples, timefmt,
                 locationfmt, srcs>>

(* One field: psystem_read_source_file reads the file from its beginning.  *)
HandOver ==
  /\ version = 2 /\ stage = 0 /\ AtLine("count")
  /\ Call(1, Lines(files[ifile]))
  /\ UNCHANGED <<phase, epoch, files, ifile, srcs>>

(* Both parsers: the sources of this file come behind those there are.     *)
StartMutant == 1  \* mutant: over those of the files before
Start == Len(srcs) + 1
Room ==
  /\ isrc' = Start
  /\ srcs' = srcs \o [k \in 1..files[ifile].declared |-> Slot]
  /\ stage' = 1

Count ==
  /\ version = 1 /\ stage = 0 /\ AtLine("count")
  /\ Room /\ NextLine
  /\ UNCHANGED <<phase, epoch, files, ifile, version, isample, Nsamples, timefmt, locationfmt>>

(* An unknown format of the times is an error only if the format of the    *)
(* places, which is absolute by default, is not absolute.                  *)
TimeFormat(s) ==
  CASE s \in {"time_q", "a"} -> 0
    [] s \in {"redshift", "z"} -> 1
    [] s = "myr" -> 2
    [] s = "tick" -> 3
    [] OTHER -> None
Absolute(s) == s \in {"", "absolute"}

(* z2t knows the age at every time of a sample that is given by a redshift *)
(* or by a scale factor, which is what an unknown format is taken for.     *)
ASSUME AgesKnown ==
  \A l \in SourceLists : \A k \in 1..Len(l) : l[k].version = 2 =>
    \A d \in 1..Len(l[k].sources) : \A n \in 1..Len(l[k].sources[d].samples) :
      LET time == l[k].sources[d].samples[n].time IN
        /\ TimeFormat(l[k].timefmt) = 1 => Age[time] \in Int
        /\ TimeFormat(l[k].timefmt) \in {0, None} => Age[Age[Inverse1p[time]]] \in Int

HeadLine ==
  /\ version = 2 /\ stage = 0 /\ AtLine("head")
  /\ LET time == TimeFormat(files[ifile].timefmt)
         location == files[ifile].locationfmt
     IN IF time = None /\ ~Absolute(location)
          THEN Error
          ELSE /\ timefmt' = IF time = None THEN timefmt ELSE time
               /\ locationfmt' = IF location = "relative" THEN 1 ELSE 0
               /\ Room /\ NextLine
               /\ UNCHANGED <<phase, epoch, files, ifile, version, isample, Nsamples>>

(* What is common to the sources of both versions.  Other types than plane *)
(* are point sources.                                                      *)
Type(s) == IF s = "plane" THEN "plane" ELSE "point"
Ngamma(type, radius, L) ==
  Boost * IF type = "plane" THEN L * PiR2[radius]
          ELSE IF L < 0 THEN PerLum * (-L) ELSE L
Overrun == phase' = "overrun" /\ UNCHANGED <<epoch, files, ifile, local, srcs>>
Missing(d) == d.type = "plane" /\ d.radius = None

(* Version 1, stage 1: one line is one source.                             *)
LastSource(n) == n = Len(srcs) + 1
OldSource(d, at) ==
  [type |-> Type(d.type), radius |-> IF d.type = "plane" THEN d.radius ELSE srcs[isrc].radius,
   pos |-> at.pos, dir |-> at.dir,
   basis |-> IF d.type = "plane" THEN at.dir ELSE srcs[isrc].basis,
   lastemit |-> 0, cursor |-> 1, ticks |-> <<0>>,
   Ngamma_dots |-> <<Ngamma(Type(d.type), d.radius, at.L)>>]

SourceLine ==
  /\ version = 1 /\ stage = 1 /\ AtLine("source")
  /\ LET d == Head(rest).d IN
       IF isrc > Len(srcs) THEN Overrun
       ELSE IF d.spec \notin Spectra \/ Missing(d) THEN Error
       ELSE /\ srcs' = [srcs EXCEPT ![isrc] = OldSource(d, Head(rest).at)]
            /\ isrc' = isrc + 1
            /\ stage' = IF LastSource(isrc + 1) THEN 2 ELSE 1
            /\ NextLine
            /\ UNCHANGED <<phase, epoch, files, ifile, version, isample, Nsamples, timefmt,
                           locationfmt>>

(* Version 2, stage 1: the first line of a source.  A plane without radius *)
(* is refused before anything is written, an unknown spectrum after that;  *)
(* the line of a sample has a number where the spectrum should be.         *)
Begun(src, d) ==
  [src EXCEPT !.type = Type(d.type),
              !.radius = IF d.type = "plane" THEN d.radius ELSE @,
              !.lastemit = 0, !.cursor = 1,
              !.ticks = [k \in 1..d.n |-> None], !.Ngamma_dots = [k \in 1..d.n |-> None]]

SeriesLine ==
  /\ version = 2 /\ stage = 1 /\ AtLine("series")
  /\ LET d == Head(rest).d IN
       IF Missing(d) THEN Error
       ELSE IF isrc > Len(srcs) THEN Overrun
       ELSE IF d.spec \notin Spectra THEN Error
       ELSE /\ srcs' = [srcs EXCEPT ![isrc] = Begun(@, d)]
            /\ Nsamples' = d.n /\ isample' = 1 /\ stage' = 2
            /\ NextLine
            /\ UNCHANGED <<phase, epoch, files, ifile, version, isrc, timefmt, locationfmt>>
SampleForSeries ==
  /\ version = 2 /\ stage = 1 /\ AtLine("sample")
  /\ IF isrc > Len(srcs) THEN Overrun ELSE Error

(* The tick of a time.  The case for scale factors has no break and goes   *)
(* on with that for redshifts; z2t yields the unit of time, which is then  *)
(* multiplied by U_MYR once more.  The quotient is truncated.              *)
TruncDiv(a, b) == IF a >= 0 THEN a \div b ELSE -((-a) \div b)
AgeTick(z) == TruncDiv(Age[z] * Myr.num - EpochAge[epoch] * Myr.den, Myr.den * TickTime[epoch])
MyrTick(time) == TruncDiv(time * Myr.num, Myr.den * TickTime[epoch])
TickOf(time) ==
  CASE timefmt = 0 -> AgeTick(Age[Inverse1p[time]])
    [] timefmt = 1 -> AgeTick(time)
    [] timefmt = 2 -> MyrTick(time)
    [] timefmt = 3 -> time

(* Version 2, stage 2: a sample.  The vectors that span a plane are solved *)
(* for before dir is set.  Whether this was the last source is asked       *)
(* before isrc is incremented, so the answer is no.                        *)
Place(pos) == IF locationfmt = 1 THEN BoxSize * pos ELSE pos
Sampled(src, at) ==
  [src EXCEPT !.ticks[isample] = TickOf(at.time),
              !.Ngamma_dots[isample] = Ngamma(src.type, src.radius, at.L),
              !.basis = IF src.type = "plane" THEN src.dir ELSE @,
              !.pos = Place(at.pos), !.dir = at.dir]
LastSampleMutant == isample > Nsamples  \* mutant: one sample too many
LastSample == isample = Nsamples

SampleLine ==
  /\ version = 2 /\ stage = 2 /\ AtLine("sample")
  /\ srcs' = [srcs EXCEPT ![isrc] = Sampled(@, Head(rest).at)]
  /\ isample' = isample + 1
  /\ IF ~LastSample THEN UNCHANGED <<stage, isrc>>
     ELSE IF LastSource(isrc) THEN stage' = 3 /\ UNCHANGED isrc
     ELSE stage' = 1 /\ isrc' = isrc + 1
  /\ NextLine
  /\ UNCHANGED <<phase, epoch, files, ifile, version, Nsamples, timefmt, locationfmt>>

(* In a wrong place a first line does not have the fields of a sample.     *)
SeriesForSample == version = 2 /\ stage = 2 /\ AtLine("series") /\ Error

(* The end of the file, or the last stage: all sources must be there.      *)
CloseFile ==
  /\ phase = "read" /\ (rest = <<>> \/ stage = LastStage)
  /\ IF ~LastSource(isrc) THEN Error
     ELSE /\ phase' = "files" /\ ifile' = ifile + 1 /\ Call(2, <<>>)
          /\ UNCHANGED <<epoch, files, srcs>>

(* The report of the brightest and the faintest source needs one.          *)
Report ==
  /\ phase = "files" /\ ifile > Len(files)
  /\ phase' = IF srcs = <<>> THEN "crash" ELSE "done"
  /\ UNCHANGED <<epoch, files, ifile, local, srcs>>

(* psystem_switch_epoch of the next epoch reads its sources from scratch.  *)
NextEpoch ==
  /\ phase = "done" /\ epoch < NEpochs
  /\ phase' = "files" /\ epoch' = epoch + 1 /\ files' \in SourceLists
  /\ ifile' = 1 /\ srcs' = <<>>
  /\ UNCHANGED local

Stopped == phase \in {"error", "overrun", "crash"} \/ (phase = "done" /\ epoch = NEpochs)
SourceTerminating == Stopped /\ UNCHANGED source_vars

SourceNext ==
  \/ OpenFile \/ Comment \/ HandOver \/ Count \/ HeadLine \/ SourceLine
  \/ SeriesLine \/ SampleForSeries \/ SampleLine \/ SeriesForSample
  \/ CloseFile \/ Report \/ NextEpoch \/ SourceTerminating

SourceSpec == SourceInit /\ [][SourceNext]_source_vars

-----------------------------------------------------------------------------
Source ==
  [type : {"point", "plane", None}, radius : Nat \cup {None}, pos : Int \cup {None},
   dir : Int \cup {None}, basis : Int \cup {None}, lastemit : {0, None},
   cursor : {1, None}, ticks : Seq(Int \cup {None}), Ngamma_dots : Seq(Int \cup {None})]
SourceTypeOK ==
  /\ phase \in {"files", "read", "done", "error", "overrun", "crash"}
  /\ epoch \in 1..NEpochs /\ files \in SourceLists /\ ifile \in 1..(Len(files) + 1)
  /\ version \in {1, 2} /\ stage \in 0..LastStage
  /\ isrc \in 1..(Len(srcs) + 1)
  /\ isample \in Nat \ {0} /\ Nsamples \in Nat
  /\ stage = 2 /\ version = 2 /\ Nsamples # 0 => isample \in 1..Nsamples
  /\ timefmt \in 0..3 /\ locationfmt \in {0, 1}
  /\ srcs \in Seq(Source)

(* How reading ends follows from what the files hold.  It succeeds only if *)
(* each file holds the sources and samples it declares, and then every     *)
(* source of every file is there once, in order, with its samples, ready   *)
(* to emit from its first one, and no source of an earlier epoch.  It      *)
(* fails only for a file that does not hold what it declares, says nothing *)
(* or cannot be understood; the array is overrun only by a file that holds *)
(* more than it declares.                                                  *)
Taken(file) ==
  IF file.version = 1 THEN SubSeq(file.sources, 1, file.declared) ELSE file.sources
Holds(file, d) ==
  d.spec \in Spectra /\ ~Missing(d) /\ (file.version = 2 => d.n = Len(d.samples) /\ d.n # 0)
Keeps(file) ==
  /\ IF file.version = 1 THEN file.declared <= Len(file.sources)
                         ELSE file.declared = Len(file.sources)
  /\ \A k \in 1..Len(Taken(file)) : Holds(file, Taken(file)[k])
Exceeds(file) ==
  \/ file.version = 1 /\ file.declared = 0 /\ file.sources # <<>>
  \/ file.version = 2 /\ \/ Len(file.sources) > file.declared
                         \/ \E d \in 1..Len(file.sources) :
                              Len(file.sources[d].samples) > file.sources[d].n
Origins ==
  FlattenSeq([k \in 1..Len(files) |->
    [d \in 1..Len(Taken(files[k])) |-> [file |-> files[k], d |-> Taken(files[k])[d]]]])

ScaledTo(file, pos) ==
  IF file.version = 2 /\ file.locationfmt = "relative" THEN BoxSize * pos ELSE pos
Spanned(file, d) ==
  \/ file.version = 1
  \/ Len(d.samples) > 1 /\ \A k \in 1..Len(d.samples) : d.samples[k].dir = d.samples[1].dir
FromOrigin(src, file, d) ==
  LET last == d.samples[Len(d.samples)] IN
    /\ src.type = Type(d.type) /\ (src.type = "plane" => src.radius = d.radius)
    /\ src.lastemit = 0 /\ src.cursor = 1
    /\ src.pos = ScaledTo(file, last.pos) /\ src.dir = last.dir
    /\ src.type = "plane" /\ Spanned(file, d) => src.basis = src.dir
    /\ src.Ngamma_dots =
         [k \in 1..Len(d.samples) |-> Ngamma(src.type, src.radius, d.samples[k].L)]
    /\ Len(src.ticks) = Len(d.samples)
    /\ file.version = 1 => src.ticks = <<0>>
    /\ file.version = 2 /\ file.timefmt \in {"tick", "myr"} =>
         \A k \in 1..Len(d.samples) :
           src.ticks[k] = IF file.timefmt = "tick" THEN d.samples[k].time
                          ELSE MyrTick(d.samples[k].time)

Outcome ==
  /\ phase = "done" =>
       /\ \A k \in 1..Len(files) : Keeps(files[k])
       /\ Len(srcs) = Len(Origins) /\ srcs # <<>>
       /\ \A k \in 1..Len(srcs) : FromOrigin(srcs[k], Origins[k].file, Origins[k].d)
  /\ phase = "error" =>
       \/ ~Keeps(files[ifile]) \/ (files[ifile].version = 0 /\ ifile > 1)
       \/ TimeFormat(files[ifile].timefmt) = None /\ ~Absolute(files[ifile].locationfmt)
  /\ phase = "overrun" => Exceeds(files[ifile])
  /\ phase = "crash" => Origins = <<>>

(* sane.c prints z2t(0) / U_MYR as a time in Myr, and epochs.c the age of  *)
(* an epoch likewise: z2t yields the unit of time.  A sample at a redshift *)
(* then begins at the tick that many ticks after the age of the epoch.     *)
TimesMeant ==
  phase = "done" =>
    \A k \in 1..Len(Origins) :
      Origins[k].file.timefmt \in {"z", "redshift"} =>
        \A n \in 1..Len(Origins[k].d.samples) :
          srcs[k].ticks[n] =
            TruncDiv(Age[Origins[k].d.samples[n].time] - EpochAge[epoch], TickTime[epoch])
=============================================================================

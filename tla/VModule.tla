------------------------------ MODULE VModule ------------------------------
(***************************************************************************)
(* What --v and --vmodule say of a file: FNMatch of                        *)
(* absl/log/internal/fnmatch.cc and the list of patterns of                *)
(* vlog_config.cc.  The first pattern that matches a file decides its      *)
(* level.  The list drops patterns that, it takes, cannot decide: those    *)
(* whose text is matched by a pattern before them.                         *)
(*                                                                         *)
(* Text is a sequence of characters.  What happens under `mutex` is one    *)
(* action; the sites that cache a level are VLogSites' subject.            *)
(***************************************************************************)
EXTENDS Naturals, FiniteSets, Sequences, SequencesExt

CONSTANTS
    Patterns, Files,   \* text
    Levels, NoLevel,   \* NoLevel stands for what SimpleAtoi does not parse
    MaxRules           \* bound on the rules that are given between two resets

VARIABLES
    global_v, vmodule_info,
    rules              \* all that was said since the last reset, latest SetVLogLevel first

vars == <<global_v, vmodule_info, rules>>

Drop(s, k) == SubSeq(s, k + 1, Len(s))
FirstOf(chars, s) ==   \* find_first_of, Len(s) for npos
    IF \E i \in DOMAIN s : s[i] \in chars
    THEN (CHOOSE i \in DOMAIN s : s[i] \in chars /\ \A j \in 1..(i - 1) : s[j] \notin chars) - 1
    ELSE Len(s)

\* Where `part` occurs in s.
Occurrences(part, s) == {k \in 0..(Len(s) - Len(part)) : IsPrefix(part, Drop(s, k))}

RECURSIVE FNMatchFrom(_, _, _)
FNMatchFrom(pattern, str, in_wildcard_match) ==
    IF pattern = <<>> THEN in_wildcard_match \/ str = <<>>
    ELSE IF str = <<>> THEN \A i \in DOMAIN pattern : pattern[i] = "*"
    ELSE IF Head(pattern) = "*" THEN FNMatchFrom(Tail(pattern), str, TRUE)
    ELSE IF Head(pattern) = "?" THEN FNMatchFrom(Tail(pattern), Tail(str), in_wildcard_match)
    ELSE IF in_wildcard_match
         THEN LET size == FirstOf({"*", "?"}, pattern)
                  found == Occurrences(SubSeq(pattern, 1, size), str)
              IN /\ found # {}
                 /\ FNMatchFrom(Drop(pattern, size), Drop(str, Min(found) + size), FALSE)
    ELSE Head(pattern) = Head(str) /\ FNMatchFrom(Tail(pattern), Tail(str), FALSE)

FNMatch(pattern, str) == FNMatchFrom(pattern, str, FALSE)

ModuleIsPath(pattern) == \E i \in DOMAIN pattern : pattern[i] = "/"

\* The text after the last separator.
Basename(file) == Drop(file, Max({0} \cup {i \in DOMAIN file : file[i] = "/"}))

Inl == <<"-", "i", "n", "l">>
WithoutInl(s) == IF IsSuffix(Inl, s) THEN SubSeq(s, 1, Len(s) - Len(Inl)) ELSE s

\* The basename up to its first '.', and without "-inl"; the path that ends there.
StemBasename(file) ==
    WithoutInl(SubSeq(Basename(file), 1, FirstOf({"."}, Basename(file))))
Stem(file) == SubSeq(file, 1, Len(file) - Len(Basename(file))) \o StemBasename(file)

Matches(pattern, file) ==
    FNMatch(pattern, IF ModuleIsPath(pattern) THEN Stem(file) ELSE StemBasename(file))

VLogLevel(file, infos, current_global_v) ==
    LET deciding == {i \in DOMAIN infos : Matches(infos[i].module_pattern, file)}
    IN IF deciding = {} THEN current_global_v ELSE infos[Min(deciding)].vlog_level

Info(pattern, level) == [module_pattern |-> pattern, vlog_level |-> level]

AppendVModuleLocked(infos, info) ==
    IF \E i \in DOMAIN infos : FNMatch(infos[i].module_pattern, info.module_pattern)
    THEN infos
    ELSE Append(infos, info)

PrependVModuleLocked(infos, info) ==
    <<info>> \o SelectSeq(infos,
                          LAMBDA i : ~FNMatch(info.module_pattern, i.module_pattern))

\* A level that does not parse makes its entry void.
UpdateVModule(entries) ==
    LET glob_levels == SelectSeq(entries, LAMBDA e : e.vlog_level # NoLevel)
    IN /\ vmodule_info' = FoldLeft(AppendVModuleLocked, <<>>, glob_levels)
       /\ rules' = glob_levels
       /\ UNCHANGED global_v

UpdateGlobalVLogLevel(v) ==
    /\ v # global_v
    /\ global_v' = v
    /\ UNCHANGED <<vmodule_info, rules>>

PrependVModule(pattern, level) ==
    /\ Len(rules) < MaxRules
    /\ vmodule_info' = PrependVModuleLocked(vmodule_info, Info(pattern, level))
    /\ rules' = <<Info(pattern, level)>> \o rules
    /\ UNCHANGED global_v

Entries == {Info(p, l) : p \in Patterns, l \in Levels \cup {NoLevel}}

Init == global_v = 0 /\ vmodule_info = <<>> /\ rules = <<>>

Next ==
    \/ \E entries \in SeqOf(Entries, 2) : UpdateVModule(entries)
    \/ \E v \in Levels : UpdateGlobalVLogLevel(v)
    \/ \E p \in Patterns, l \in Levels : PrependVModule(p, l)

Spec == Init /\ [][Next]_vars
-----------------------------------------------------------------------------
\* "Files are matched against globs in `--vmodule` in order, and the first match determines the
\* verbosity level" (vlog_is_on.h): a file has the level of the first rule given that matches
\* it, or else the global one, although the list has dropped some of the rules.
RulesDecide ==
    \A f \in Files : VLogLevel(f, vmodule_info, global_v) = VLogLevel(f, rules, global_v)

\* What the list takes for granted when it drops `later`, whose text `earlier` matches: "the
\* new pattern "foo*" will match all the files that the previous pattern "foo" matches"
\* (PrependVModuleLocked).
MatchesAllOf(earlier, later) == \A f \in Files : Matches(later, f) => Matches(earlier, f)

\* The rules decide, in whatever order they were given, prepended and dropped, as long as every
\* pattern that matches the text of a later one also matches the files of that one.
RulesDecideIfTextTells ==
    (\A i, j \in DOMAIN rules :
        i < j /\ FNMatch(rules[i].module_pattern, rules[j].module_pattern) =>
            MatchesAllOf(rules[i].module_pattern, rules[j].module_pattern))
    => RulesDecide

\* What the pattern means: '*' is any text, '?' any character.
RECURSIVE Glob(_, _)
Glob(p, s) ==
    IF p = <<>> THEN s = <<>>
    ELSE IF Head(p) = "*" THEN \E k \in 0..Len(s) : Glob(Tail(p), Drop(s, k))
    ELSE /\ s # <<>>
         /\ Head(p) \in {"?", Head(s)}
         /\ Glob(Tail(p), Tail(s))

\* "'?' and '*' characters in patterns are interpreted as single-character and
\* zero-or-more-character wildcards" (vlog_is_on.h), and FNMatch is "Like POSIX `fnmatch`"
\* (fnmatch.h): FNMatch finds every rule that a file's name fits.
WildcardsMatch ==
    \A f \in Files, i \in DOMAIN rules :
        LET p == rules[i].module_pattern
        IN  Matches(p, f) <=> Glob(p, IF ModuleIsPath(p) THEN Stem(f) ELSE StemBasename(f))

\* Whether p[i..j] is a text of p, after a '*', that no other '*' follows: FNMatch takes it where
\* it occurs first, and has no second try when what is left does not fit.
TriedOnce(p, i, j) ==
    LET Wild(k) == p[k] \in {"*", "?"}
    IN  /\ i \in 2..j /\ Wild(i - 1) /\ \A k \in i..j : ~Wild(k)
        /\ j = Len(p) \/ p[j + 1] = "?"
        /\ \E k \in 1..(i - 1) : p[k] = "*"

\* FNMatch accepts nothing that the pattern does not mean, and accepts all that it means if a
\* text that it tries once is found in one place at most.
FNMatchIsGlob ==
    \A p \in SeqOf({"a", "b", "*", "?"}, 5), s \in SeqOf({"a", "b"}, 5) :
        /\ FNMatch(p, s) => Glob(p, s)
        /\ /\ Glob(p, s)
           /\ \A i, j \in DOMAIN p :
                 TriedOnce(p, i, j) => Cardinality(Occurrences(SubSeq(p, i, j), s)) <= 1
           => FNMatch(p, s)
-----------------------------------------------------------------------------
(* For TLC: patterns with and without a '/', and patterns with a text to be found late. *)
PathPatterns == {<<"a">>, <<"a", "*">>, <<"a", "?">>, <<"a", "/", "b">>}
PathFiles == {<<"a">>, <<"a", "b", ".", "h">>, <<"a", "/", "b", ".", "h">>}
LatePatterns == {<<"a", "*">>, <<"*", "b">>, <<"*", "a", "b">>}
LateFiles == {<<"a", "a", "b", ".", "h">>, <<"a", "b", "a", "b", ".", "h">>}
=============================================================================

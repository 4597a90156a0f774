----------------------------- MODULE Sequential -----------------------------
(***************************************************************************)
(* The parts of the program that one thread runs without a partner: what   *)
(* main does before the engine starts (the options, the ranges of names,   *)
(* the source ports), what a task does before its loop (its requests, the  *)
(* ports of a connection), and the reader of an event stream.  A behaviour *)
(* is that of one part; the others stay idle, or their variables empty.    *)
(***************************************************************************)
EXTENDS CheckOptions, OfferList, BalancedPorts, RequestPlan, RangePattern, SseReader

CONSTANT RssInputs   \* 4-tuples, keys and tables

VARIABLES
  part,
  input, table, port, queues

Rss == INSTANCE RssTable WITH
         Bits <- 2, WordBytes <- 2, Synthetic <- 8, AddrBytes <- 1, Inputs <- RssInputs

rssVars == <<input, table, port, queues>>

seqVars == <<part, optVars, rangeVars, rssVars, listVars, offerVars, planVars, sseVars>>

(* The variables of a part that is not the behaviour's. *)
NoOptions == asked = <<>> /\ opts = <<>> /\ source = "kernel" /\ check = "idle"
NoOffers == task = 0 /\ connection = 0 /\ k = 0 /\ out = <<>>
NoRanges == parts = <<>> /\ results = <<>> /\ from = 0 /\ end = ""
NoRss == input = <<>> /\ table = <<>> /\ port = <<>> /\ queues = <<>>
NoList ==
  /\ queueOf = [p \in Ports |-> 0] /\ ports = <<>> /\ cursor = <<>>
  /\ place = 1 /\ progress = FALSE /\ done = FALSE
NoRequests == plan = [hosts |-> <<>>] /\ targets = <<>> /\ wired = FALSE
NoSse == whole = <<>> /\ text = <<>> /\ buffer = <<>> /\ data = <<>> /\ events = <<>>

SeqInit ==
  \/ /\ part = "options" /\ OptInit
     /\ NoRanges /\ NoRss /\ NoList /\ NoOffers /\ NoRequests /\ NoSse
  \/ /\ part = "ranges" /\ RangeInit
     /\ NoOptions /\ NoRss /\ NoList /\ NoOffers /\ NoRequests /\ NoSse
  \/ /\ part = "rss table" /\ Rss!RssInit
     /\ NoOptions /\ NoRanges /\ NoList /\ NoOffers /\ NoRequests /\ NoSse
  \/ /\ part = "balanced list" /\ ListInit
     /\ NoOptions /\ NoRanges /\ NoRss /\ NoOffers /\ NoRequests /\ NoSse
  \/ /\ part = "offers" /\ OfferInit
     /\ NoOptions /\ NoRanges /\ NoRss /\ NoList /\ NoRequests /\ NoSse
  \/ /\ part = "requests" /\ PlanInit
     /\ NoOptions /\ NoRanges /\ NoRss /\ NoList /\ NoOffers /\ NoSse
  \/ /\ part = "event stream" /\ SseInit
     /\ NoOptions /\ NoRanges /\ NoRss /\ NoList /\ NoOffers /\ NoRequests

SeqNext ==
  /\ UNCHANGED part
  /\ \/ /\ part = "options" /\ OptNext
        /\ UNCHANGED <<rangeVars, rssVars, listVars, offerVars, planVars, sseVars>>
     \/ /\ part = "ranges" /\ RangeNext
        /\ UNCHANGED <<optVars, rssVars, listVars, offerVars, planVars, sseVars>>
     \/ /\ part = "rss table" /\ Rss!RssNext
        /\ UNCHANGED <<optVars, rangeVars, listVars, offerVars, planVars, sseVars>>
     \/ /\ part = "balanced list" /\ ListNext
        /\ UNCHANGED <<optVars, rangeVars, rssVars, offerVars, planVars, sseVars>>
     \/ /\ part = "offers" /\ OfferNext
        /\ UNCHANGED <<optVars, rangeVars, rssVars, listVars, planVars, sseVars>>
     \/ /\ part = "requests" /\ PlanNext
        /\ UNCHANGED <<optVars, rangeVars, rssVars, listVars, offerVars, sseVars>>
     \/ /\ part = "event stream" /\ SseNext
        /\ UNCHANGED <<optVars, rangeVars, rssVars, listVars, offerVars, planVars>>

SeqSpec == SeqInit /\ [][SeqNext]_seqVars
-----------------------------------------------------------------------------
(* The tables give a port the queue that the hash of its 4-tuple leads to. *)
TablesAgree == part = "rss table" => Rss!TablesAgree
=============================================================================

---------------------------- MODULE TelegramBot ----------------------------
(***************************************************************************)
(* telegram_bot_prototype.py with telegram_bot_photo.py: what the bot does *)
(* with a photo or a document somebody sends, beside the codes and links   *)
(* of TelegramLink.  The user is resolved once, when the upload arrives;   *)
(* then the file is downloaded, routed by its caption or by a vision call, *)
(* given to the expense or the AP agent, and an event is appended to the   *)
(* persistent log in that user's name.  Another process may revoke the     *)
(* link at any moment of this; the bot itself handles one message at a     *)
(* time, since its Application is built without concurrent_updates.        *)
(*                                                                         *)
(* Of the persistent log the events about each process's last upload are   *)
(* kept, of its replies the one that ends that upload.  The agent's run on *)
(* its throw-away stores is AgentRun's matter: here it returns a draft, or *)
(* none, or raises.                                                        *)
(***************************************************************************)
EXTENDS TelegramLink

CONSTANTS NoUpload      \* the process handles no upload and remembers none

VARIABLES
    upload,     \* each bot process's last message, if an upload, and how far it is
    posted      \* the telegram_bot event in the audit log about that upload

botVars == <<upload, posted>>

Stages == {"acked", "fetched", "routed", "run", "recorded", "answered"}
Replies == {"none", "submitted", "nothing", "rejected"}
Upload == [at : Stages, chat : Chats, username : Users, draft : BOOLEAN, reply : Replies]

(* telegram_bot.photo_routed with its draft_ok, telegram_bot.document_rejected. *)
BotEvent == [action : {"photo_routed"}, actor : Users, draft_ok : BOOLEAN]
            \cup [action : {"document_rejected"}, actor : Users]

ASSUME NoEventAssumption == NoEvent \notin BotEvent

At(p, stage) == upload[p] # NoUpload /\ upload[p].at = stage
InProgress(p) == upload[p] # NoUpload /\ upload[p].at # "answered"

Move(p, stage) == upload' = [upload EXCEPT ![p].at = stage]
Reply(p, reply) == upload' = [upload EXCEPT ![p].at = "answered", ![p].reply = reply]

Forget(p) ==
    /\ upload' = [upload EXCEPT ![p] = NoUpload]
    /\ posted' = [posted EXCEPT ![p] = NoEvent]

(* One update at a time.                                                   *)
Free(p) == op[p] = Idle /\ ~InProgress(p)

-----------------------------------------------------------------------------
BotInit ==
    /\ Init
    /\ upload = [p \in Redeemers |-> NoUpload]
    /\ posted = [p \in Redeemers |-> NoEvent]

(* Slip: a code is redeemed while an upload is under way, as it would be   *)
(* with concurrent_updates.                                                *)
M_Text(p) ==
    /\ \/ \E code \in Codes, chat \in Chats : RedeemRead(p, code, chat)
       \/ RedeemCheckChat(p)
       \/ RedeemWrite(p)
    /\ UNCHANGED botVars

(* on_text(), on_start(): a code that was sent is redeemed inside the      *)
(* handler, step by step; anything else only gets a reply.                 *)
Text(p) ==
    \/ /\ Free(p)
       /\ \E code \in Codes, chat \in Chats : RedeemRead(p, code, chat)
       /\ Forget(p)
    \/ (RedeemCheckChat(p) \/ RedeemWrite(p)) /\ UNCHANGED botVars

(* on_photo() and on_document() up to the acknowledgement.  A chat without *)
(* a link, or a bot without an API key, gets a reply and that is all.      *)
Receive(p, chat) ==
    /\ Free(p)
    /\ Resolve(chat) # NoLink
    /\ upload' = [upload EXCEPT ![p] =
           [at |-> "acked", chat |-> chat, username |-> Resolve(chat),
            draft |-> FALSE, reply |-> "none"]]
    /\ posted' = [posted EXCEPT ![p] = NoEvent]
    /\ UNCHANGED vars

(* reject_document(), before the download: an event, then the reply.       *)
RejectDocument(p) ==
    /\ At(p, "acked")
    /\ posted' = [posted EXCEPT ![p] =
           [action |-> "document_rejected", actor |-> upload[p].username]]
    /\ Reply(p, "rejected")
    /\ UNCHANGED vars

(* The download; on_document() answers for a TelegramError, on_photo()     *)
(* leaves it to the framework and says nothing.                            *)
Download(p) ==
    /\ At(p, "acked")
    /\ Move(p, "fetched") \/ Reply(p, "nothing") \/ Reply(p, "none")
    /\ UNCHANGED <<vars, posted>>

(* route_by_caption(): exactly one of the two keyword sets occurs.         *)
route_by_caption(keywords) ==
    IF keywords \in {{"expense"}, {"invoice"}} THEN keywords ELSE {}

(* process_photo(), process_document(): the caption, or else one vision    *)
(* call, whose verdict may be "unclear" or which may raise.                *)
RouteUpload(p, keywords, verdict) ==
    /\ At(p, "fetched")
    /\ IF route_by_caption(keywords) # {} \/ verdict \in {"expense", "invoice"}
         THEN Move(p, "routed")
         ELSE Reply(p, "nothing")
    /\ UNCHANGED <<vars, posted>>

(* run_expense() ... run_invoice_document(): a draft that was submitted,   *)
(* an extraction that failed, or one of the exceptions that are caught.    *)
RunAgent(p) ==
    /\ At(p, "routed")
    /\ \/ \E draft \in BOOLEAN :
            upload' = [upload EXCEPT ![p].at = "run", ![p].draft = draft]
       \/ Reply(p, "nothing")
    /\ UNCHANGED <<vars, posted>>

(* Slip: whatever was routed counts as drafted.                            *)
M_RecordPhotoRouted(p) ==
    /\ At(p, "run")
    /\ posted' = [posted EXCEPT ![p] =
           [action |-> "photo_routed", actor |-> upload[p].username, draft_ok |-> TRUE]]
    /\ Move(p, "recorded")
    /\ UNCHANGED vars

(* _record_photo_routed()                                                  *)
RecordPhotoRouted(p) ==
    /\ At(p, "run")
    /\ posted' = [posted EXCEPT ![p] =
           [action |-> "photo_routed", actor |-> upload[p].username,
            draft_ok |-> upload[p].draft]]
    /\ Move(p, "recorded")
    /\ UNCHANGED vars

(* summarize_expense(), summarize_invoice() and the reply.                 *)
Summarize(p) ==
    /\ At(p, "recorded")
    /\ Reply(p, IF upload[p].draft THEN "submitted" ELSE "nothing")
    /\ UNCHANGED <<vars, posted>>

(* An exception nobody catches, or the end of the process.                 *)
LoseUpload(p) ==
    /\ InProgress(p)
    /\ Forget(p)
    /\ UNCHANGED vars

Handling(p) ==
    \/ \E chat \in Chats : Receive(p, chat)
    \/ RejectDocument(p)
    \/ Download(p)
    \/ \E keywords \in SUBSET {"expense", "invoice"},
          verdict \in {"expense", "invoice", "unclear", "error"} :
            RouteUpload(p, keywords, verdict)
    \/ RunAgent(p)
    \/ RecordPhotoRouted(p)
    \/ Summarize(p)
    \/ LoseUpload(p)

(* The bot's handlers beside gencode and the admin, with every process     *)
(* dying anywhere.                                                         *)
BotNext ==
    \/ \E p \in Redeemers : Text(p) \/ Handling(p)
    \/ (\E p \in Admins : Administering(p)) /\ UNCHANGED botVars
    \/ (\E p \in Procs : LogAppend(p) \/ Crash(p)) /\ UNCHANGED botVars
    \/ Tick /\ UNCHANGED botVars

BotSpec == BotInit /\ [][BotNext]_<<vars, botVars>>

-----------------------------------------------------------------------------
(* The user an upload is handled for was resolved before the download and  *)
(* is used after it: meanwhile the link may end, but it never comes to be  *)
(* somebody else's, so that nobody acts in the name of the chat's former   *)
(* user.  And whoever is told that a draft was submitted, or a document    *)
(* rejected, finds that on the durable log, in their name -- and whoever   *)
(* is told that nothing was, does not.                                     *)
UploadsAreAccountedFor ==
    \A p \in Redeemers : upload[p] # NoUpload =>
        LET mine == upload[p]
            drafted == [action |-> "photo_routed", actor |-> mine.username, draft_ok |-> TRUE]
            rejected == [action |-> "document_rejected", actor |-> mine.username]
        IN  IF InProgress(p)
              THEN Resolve(mine.chat) \in {mine.username, NoLink}
              ELSE /\ mine.reply = "submitted" <=> posted[p] = drafted
                   /\ mine.reply = "rejected" <=> posted[p] = rejected
=============================================================================

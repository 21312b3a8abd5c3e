--------------------------- MODULE MCTelegramLink ---------------------------
(* A TLC instance of TelegramBot: the bot, which redeems codes and handles *)
(* uploads, beside a process that issues codes and revokes links.          *)
EXTENDS TelegramBot, TLC

CONSTANTS bot, cli, dana, omar, chat1, chat2

TheBot == {bot}
TheCli == {cli}
TwoUsers == {dana, omar}
TwoChats == {chat1, chat2}

(* No property names a user or a chat.                                     *)
Symmetry == Permutations(Users) \cup Permutations(Chats)
=============================================================================

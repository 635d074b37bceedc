---- MODULE TokenUtils ----
(***************************************************************************)
(* What transfer_tokens and transfer_tokens_from_game do to balances. A    *)
(* book says what each holder has of each mint; the wallets' is purse, the *)
(* games' is escrow. A transfer is an entry in the book it leaves and one  *)
(* in the book it reaches, which may be the same.                          *)
(***************************************************************************)
EXTENDS Naturals

\* Books over the mints M and the holders H.
Books(M, H) == [M -> [H -> Nat]]

\* The side a transfer reaches and the side it leaves; that the holder has x to
\* give is a guard of the instruction that asks for the transfer.
Credit(book, mint, holder, x) == [book EXCEPT ![mint][holder] = @ + x]
Debit(book, mint, holder, x) == [book EXCEPT ![mint][holder] = @ - x]
====
